---- MODULE Spec2Model ----
(***************************************************************************)
(* Verification model of NDGRClient-ts.                                    *)
(*                                                                         *)
(* Part A  the message-server connector of api/NicoliveUtility             *)
(*         (createMessageServerConnector, createEntryFetcher,              *)
(*         createMessageFetcher, getBackwardMessages) on top of            *)
(*         lib/AsyncIteratorSet and api/NicoliveMessageServer.             *)
(* Part B  the supervisor NicoliveClient with its NicoliveWsClient and     *)
(*         NicoliveMessageClient.                                          *)
(* Part C  one watch session of api/NicoliveWs (connectWaitOpened) on top  *)
(*         of lib/websocket connectWsAndAsyncIterable.                     *)
(* Part D  lib/websocket ResponseIteratorSet.fetch and the size-delimited  *)
(*         decoding of a response body.                                    *)
(* Part E  lib/AsyncIteratorSet with the promises of its pending reads.    *)
(* Part F  the vpos computed by NicoliveClient.postComment.                *)
(* Part G  NicoliveMessageClient.fetchBackwardMessages.                    *)
(*                                                                         *)
(* The JavaScript run time is single threaded: an action of the model is   *)
(* the synchronous code that runs between two suspension points (await).   *)
(***************************************************************************)
EXTENDS Integers, Sequences, FiniteSets, TLC

(***************************************************************************)
(* Bounds of the model                                                     *)
(***************************************************************************)
\* number of live segments the message server streams
NSeg == 2
\* number of createConnectSet calls (the first connection and the reconnects)
MaxConn == 3
\* number of getBackwardMessages calls pending at once that the model follows
MaxBackwardCalls == 2
\* number of getBackwardMessages calls the model follows in all
MaxBackwardResults == 2
\* number of `previous` entries the server may put before the first segment
MaxPrev == 1

\* messages of one live segment
MsgsPerSeg == 2

NMsg == NSeg * MsgsPerSeg

(***************************************************************************)
(* The message server (environment).  Segment s carries MsgsPerSeg         *)
(* messages with consecutive meta ids; the entry stream of ?at=a announces *)
(* a backward pointer, the segment before a as `previous`, segment a, and  *)
(* a `next` entry that rearms the fetch at a+1.                            *)
(***************************************************************************)
SegMsgs(s) == [i \in 1..MsgsPerSeg |-> MsgsPerSeg * (s - 1) + i]

Entry(c, v) == [case |-> c, value |-> v]

BackwardValue(p) == [segment |-> p, snapshot |-> p]

EntryStream(a, nPrev, hasBackward, stale) ==
  (IF hasBackward THEN << Entry("backward", BackwardValue(a - 1)) >> ELSE << >>)
  \o (IF nPrev > 0 /\ a > 1 THEN << Entry("previous", a - 1) >> ELSE << >>)
  \o << Entry("segment", a) >>
  \o (IF stale THEN << Entry("backward", BackwardValue(a)), Entry("previous", a) >> ELSE << >>)
  \o (IF a < NSeg THEN << Entry("next", a + 1) >> ELSE << >>)

\* a backward page: the messages of segment p, and the page before it
PackedSegment(p) ==
  [messages |-> SegMsgs(p), next |-> p - 1, snapshot |-> p - 1]

VARIABLES
  endedId,                 \* meta id of the program-ended state message, 0: none
  server,                  \* how the server fills its entry streams
  cPhase, connNo, carry, aborted,
  ePc, eStream, curretnEntryAt, lastEntryAt, receivedSegment,
  backwardPromiser, entryClosed, entryIter,
  mPc, mStream, skipToMetaId, lastMeta, messageClosed, messageIter,
  currentBackwardUri, fetchingBackwardSegment, backwardCalls,
  backwardResults,         \* the settled messagePromise of each finished call
  closeReason,
  got, cEnded, fetchLog

connVars ==
  << endedId, server, cPhase, connNo, carry, aborted,
     ePc, eStream, curretnEntryAt, lastEntryAt, receivedSegment,
     backwardPromiser, entryClosed, entryIter,
     mPc, mStream, skipToMetaId, lastMeta, messageClosed, messageIter,
     currentBackwardUri, fetchingBackwardSegment, backwardCalls, backwardResults,
     closeReason,
     got, cEnded, fetchLog >>

\* Part B: the supervisor NicoliveClient
VARIABLES
  states,                  \* the (state, description) pairs published on onState
  _reconnecting,
  _lastFetchMessage,       \* "none", "chat" or "ended" (checkCloseMessage holds)
  websocketUrl,            \* the audience token of the URL
  wsClient,                \* the current NicoliveWsClient and its WebSocket
  wsCount,                 \* number of WebSockets constructed
  sent,                    \* startWatching frames sent
  messageClient,
  listeners,               \* owners of the pending onState.onoff listeners
  handlers,                \* the invocations of onConnectErrorCatch
  timers,                  \* pending timers of onReconnect
  reconnectCalls,          \* number of reconnect() calls of the caller
  events                   \* the fetch errors and ended messages of the message
                           \* stream, each with the states published for it

supVars ==
  << states, _reconnecting, _lastFetchMessage, websocketUrl, wsClient, wsCount,
     sent, messageClient, listeners, handlers, timers, reconnectCalls, events >>

\* Part C: one watch session of NicoliveWs.connectWaitOpened
VARIABLES
  watchPc,                 \* "opening", "returned" or "rejected"
  watchReconnect,          \* reconnectData != null
  ws,                      \* the WebSocket: readyState and the frames sent
  iteratorSet,             \* queue, state and latched error of the iterator set
  messageServerData,       \* state of messageServerDataPromise
  watchUrl,                \* the audience token of websocketUrl
  signalAborted,
  inbound,                 \* the frames received so far
  received,                \* the values the caller got from iterator.next()
  iterEnd                  \* "none", "done" or "error": how the iteration ended

sessionVars ==
  << watchPc, watchReconnect, ws, iteratorSet, messageServerData, watchUrl,
     signalAborted, inbound, received, iterEnd >>

\* Part D: one ResponseIteratorSet.fetch and the reading of its iterator
VARIABLES
  res,                     \* the HTTP response: status, whether it has a body,
                           \* and the bytes of the body
  rPc,                     \* "fetching", "reading", "done" or "failed"
  remaining,               \* bytes of the body the reader has not delivered
  buffer,                  \* buffer of sizeDelimitedDecodeStream
  decoded,                 \* the payloads the iterator yielded
  rError                   \* the error the fetch or the iterator threw

streamVars == << res, rPc, remaining, buffer, decoded, rError >>

\* Part E: one AsyncIteratorSet and the promises its next() returned
VARIABLES
  channel,                 \* queue, state, error, filter, resolveNext, rejectNext
  promises,                \* the promise of each next() call, in call order
  enqueued,                \* the enqueue() calls: the value, the state at the
                           \* call and the verdict of the filter
  thrownAfter              \* number of next() calls made when throw() latched
                           \* its error; -1: nothing thrown

channelVars == << channel, promises, enqueued, thrownAfter >>

\* Part F: postComment of the supervisor NicoliveClient
VARIABLES
  now,                     \* Date.now(), milliseconds
  vposBaseTimeMs,          \* latched by onMessageServer; -1: not latched
  posted                   \* the postComment frames sent, with the time of the call

clockVars == << now, vposBaseTimeMs, posted >>

\* Part G: fetchBackwardMessages of NicoliveMessageClient
VARIABLES
  mcIsSnapshot,            \* the constructor parameter isSnapshot
  _backwardUri,            \* NotConnect, 0 (undefined) or the page to fetch
  _fetchingBackwardMessage,
  oldEntries,              \* number of backward entries receiveEntry handled
  oldCalls,                \* the fetchBackwardMessages calls, running or ended
  onMessageOld             \* the batches emitted on onMessageOld

backVars ==
  << mcIsSnapshot, _backwardUri, _fetchingBackwardMessage, oldEntries, oldCalls,
     onMessageOld >>

libVars == << streamVars, channelVars, clockVars, backVars >>

vars == << connVars, supVars, sessionVars, libVars >>

(***************************************************************************)
(* lib/AsyncIteratorSet: the queue and the state of one iterator set       *)
(***************************************************************************)
NewIteratorSet == [queue |-> << >>, state |-> "iterating"]

\* enqueue() of an iterator set without filter
Enqueue(it, v) ==
  IF it.state # "iterating" THEN it
  ELSE [it EXCEPT !.queue = Append(@, v)]

\* throw(): latches the error unless the iterator set is finished
ThrowError(it) ==
  IF it.state # "iterating" THEN it ELSE [it EXCEPT !.state = "error"]

\* close(): latches closed unless the iterator set is finished
Close(it) ==
  IF it.state # "iterating" THEN it ELSE [it EXCEPT !.state = "closed"]

\* iterator.next(): a queued value first, then pending, end or the error
NextResult(it) ==
  IF it.queue # << >> THEN "value"
  ELSE IF it.state = "iterating" THEN "pending"
  ELSE IF it.state = "closed" THEN "done"
  ELSE "error"

\* variant: the program-ended state message is never recognised
checkCloseMessage_never(id) == FALSE

checkCloseMessage(id) == id # 0 /\ id = endedId

\* the filter of the message iterator set (metaFilter, or the skip filter
\* that calls metaFilter and drops values up to and including skipToMetaId):
\* the value is kept iff the result is TRUE
FilterKeeps(skip, id) == skip = 0

\* the filter in use after the value id went through the filter
FilterAfter(skip, id) == IF skip # 0 /\ id = skip THEN 0 ELSE skip

\* enqueue() of the message iterator set: the filter runs only while the
\* iterator set is iterating
EnqueueMessage(it, skip, id) ==
  IF it.state # "iterating" THEN it
  ELSE IF FilterKeeps(skip, id) THEN [it EXCEPT !.queue = Append(@, id)]
  ELSE it

\* variant: backward and previous are handled whether or not a segment was
\* received
EntryEffect_noFlag(e, rcvSeg) ==
  IF e.case \in {"next", "segment", "backward", "previous"} THEN e.case ELSE "ignore"

\* what createEntryFetcher does with one entry of the stream
EntryEffect(e, rcvSeg) ==
  IF e.case = "next" THEN "next"
  ELSE IF e.case = "segment" THEN "segment"
  ELSE IF ~rcvSeg
    THEN (IF e.case = "backward" THEN "backward"
          ELSE IF e.case = "previous" THEN "previous" ELSE "ignore")
    ELSE "ignore"

NoBackwardUri == [segment |-> 0, snapshot |-> 0]

InitAts == {1, 2}
EndedIds == {0, 3}

NewFetchLog == [no |-> 0, recv |-> << >>, emit |-> << >>, reg |-> << >>]

(***************************************************************************)
(* createMessageServerConnector: the first createConnectSet call           *)
(***************************************************************************)
\* entryAt of a connector whose backward pages are followed
BackwardAts == {2, 3}

\* backwards: whether the entry streams of the server start with a backward
\* entry
ConnInitWith(ats, backwards) ==
  /\ endedId \in EndedIds
  /\ server \in [nPrev : 0..MaxPrev, stale : BOOLEAN, backward : backwards]
  /\ cPhase = "creating"
  /\ connNo = 1
  /\ \E at \in ats :
       /\ carry = [at |-> at, skipToMetaId |-> 0, hasBackwardUri |-> FALSE,
                   backwardUri |-> NoBackwardUri]
       /\ curretnEntryAt = at
       /\ lastEntryAt = at
  /\ aborted = FALSE
  /\ ePc = "fetch"
  /\ eStream = << >>
  /\ receivedSegment = FALSE
  /\ backwardPromiser = [state |-> "pending", value |-> NoBackwardUri]
  /\ entryClosed = FALSE
  /\ entryIter = NewIteratorSet
  /\ mPc = "notStarted"
  /\ mStream = << >>
  /\ skipToMetaId = 0
  /\ lastMeta = 0
  /\ messageClosed = FALSE
  /\ messageIter = NewIteratorSet
  /\ currentBackwardUri = NoBackwardUri
  /\ fetchingBackwardSegment = FALSE
  /\ backwardCalls = << >>
  /\ backwardResults = << >>
  /\ closeReason = "none"
  /\ got = << >>
  /\ cEnded = FALSE
  /\ fetchLog = NewFetchLog

ConnInitOf(ats) == ConnInitWith(ats, {TRUE})

ConnInit == ConnInitOf(InitAts)

entryVars ==
  << ePc, eStream, curretnEntryAt, lastEntryAt, receivedSegment,
     backwardPromiser, entryClosed, entryIter, fetchLog >>
messageVars ==
  << mPc, mStream, skipToMetaId, lastMeta, messageClosed, messageIter, closeReason >>
backwardVars ==
  << currentBackwardUri, fetchingBackwardSegment, backwardCalls, backwardResults >>
consumerVars == << got, cEnded >>
setVars == << endedId, server, cPhase, connNo, carry, aborted >>

(***************************************************************************)
(* createEntryFetcher: the task `promise`                                  *)
(***************************************************************************)
\* NicoliveMessageServer.fetchEntry resolved: the server starts the stream
EntryFetchOk ==
  /\ ePc = "fetch"
  /\ UNCHANGED << supVars, sessionVars, libVars >>
  /\ ePc' = "read"
  /\ eStream' = EntryStream(curretnEntryAt, server.nPrev, server.backward, server.stale)
  /\ curretnEntryAt' = 0
  /\ fetchLog' = [NewFetchLog EXCEPT !.no = fetchLog.no + 1]
  /\ UNCHANGED << lastEntryAt, receivedSegment, backwardPromiser, entryClosed, entryIter >>
  /\ UNCHANGED << setVars, messageVars, backwardVars, consumerVars >>

\* one turn of the `for await` loop over the entries
EntryReceive ==
  /\ ePc = "read"
  /\ UNCHANGED << supVars, sessionVars, libVars >>
  /\ eStream # << >>
  /\ LET e == Head(eStream)
         eff == EntryEffect(e, receivedSegment)
         emits == eff \in {"segment", "previous"}
         registers == eff = "backward" /\ backwardPromiser.state = "pending"
     IN
       /\ eStream' = Tail(eStream)
       /\ curretnEntryAt' = IF eff = "next" THEN e.value ELSE curretnEntryAt
       /\ lastEntryAt' = IF eff = "next" THEN e.value ELSE lastEntryAt
       /\ receivedSegment' = (receivedSegment \/ eff = "segment")
       /\ entryIter' = IF emits THEN Enqueue(entryIter, e.value) ELSE entryIter
       /\ backwardPromiser' =
            IF registers THEN [state |-> "resolved", value |-> e.value]
            ELSE backwardPromiser
       /\ fetchLog' =
            [fetchLog EXCEPT
               !.recv = Append(@, e),
               !.emit = IF emits /\ entryIter.state = "iterating"
                        THEN Append(@, e.value) ELSE @,
               !.reg = IF registers THEN Append(@, e.value) ELSE @]
       \* createEntryFetcher returns and createMessageFetcher starts its task
       /\ mPc' = IF registers THEN "waitFirst" ELSE mPc
       /\ currentBackwardUri' =
            IF registers
            THEN (IF carry.hasBackwardUri THEN carry.backwardUri ELSE e.value)
            ELSE currentBackwardUri
  /\ UNCHANGED << ePc, entryClosed >>
  /\ UNCHANGED << mStream, skipToMetaId, lastMeta, messageClosed, messageIter, closeReason >>
  /\ UNCHANGED << fetchingBackwardSegment, backwardCalls, backwardResults >>
  /\ UNCHANGED << setVars, consumerVars >>

\* the entry stream ended: refetch at the `next` entry, or finish
EntryStreamEnd ==
  /\ ePc = "read"
  /\ UNCHANGED << supVars, sessionVars, libVars >>
  /\ eStream = << >>
  /\ IF curretnEntryAt = 0
     THEN /\ ePc' = "done"
          /\ entryClosed' = TRUE
          /\ entryIter' = Close(entryIter)
     ELSE /\ ePc' = "fetch"
          /\ UNCHANGED << entryClosed, entryIter >>
  /\ UNCHANGED << eStream, curretnEntryAt, lastEntryAt, receivedSegment, backwardPromiser, fetchLog >>
  /\ UNCHANGED << setVars, messageVars, backwardVars, consumerVars >>

\* the entry fetch or the read of its body failed (network or decode error)
EntryError ==
  /\ ePc \in {"fetch", "read"}
  /\ UNCHANGED << supVars, sessionVars, libVars >>
  /\ ePc' = "done"
  /\ eStream' = << >>
  /\ backwardPromiser' =
       IF backwardPromiser.state = "pending"
       THEN [backwardPromiser EXCEPT !.state = "rejected"] ELSE backwardPromiser
  /\ cPhase' = IF backwardPromiser.state = "pending" THEN "rejected" ELSE cPhase
  /\ entryIter' = ThrowError(entryIter)
  /\ entryClosed' = TRUE
  /\ UNCHANGED << curretnEntryAt, lastEntryAt, receivedSegment, fetchLog >>
  /\ UNCHANGED << endedId, server, connNo, carry, aborted >>
  /\ UNCHANGED << messageVars, backwardVars, consumerVars >>

(***************************************************************************)
(* createMessageFetcher: the task `promise`                                *)
(***************************************************************************)
IsFirst == mPc \in {"waitFirst", "fetchFirst", "readFirst"}

\* `finally` of the message task, after an optional iteratorSet.throw(e):
\* closed = true, entryFetcher.safeClose() (which aborts the entry task, whose
\* own finally closes the entry iterator set), iteratorSet.close()
\* variant: the catch block never throws into the iterator set
MessageFinally_neverThrows(throws, reason) ==
  /\ mPc' = "done"
  /\ mStream' = << >>
  /\ messageClosed' = TRUE
  /\ messageIter' = Close(messageIter)
  /\ closeReason' = IF closeReason = "none" THEN reason ELSE closeReason
  /\ entryClosed' = TRUE
  /\ ePc' = "done"
  /\ eStream' = << >>
  /\ entryIter' = Close(entryIter)

\* catch and finally of the task of createMessageFetcher
MessageFinally(throws, reason) ==
  /\ mPc' = "done"
  /\ mStream' = << >>
  /\ messageClosed' = TRUE
  /\ messageIter' = Close(IF throws /\ ~aborted THEN ThrowError(messageIter) ELSE messageIter)
  /\ closeReason' = IF closeReason = "none" THEN reason ELSE closeReason
  /\ entryClosed' = TRUE
  /\ ePc' = "done"
  /\ eStream' = << >>
  /\ entryIter' = Close(entryIter)

\* entryFetcher.iterator.next() answered (line 484 and the loop of line 494)
MsgTakeSegment ==
  /\ mPc \in {"waitFirst", "waitSeg"}
  /\ UNCHANGED << supVars, sessionVars, libVars >>
  /\ NextResult(entryIter) # "pending"
  /\ LET r == NextResult(entryIter) IN
       IF r = "value"
       THEN /\ mPc' = IF mPc = "waitFirst" THEN "fetchFirst" ELSE "fetchSeg"
            /\ mStream' = << Head(entryIter.queue) >>
            /\ entryIter' = [entryIter EXCEPT !.queue = Tail(@)]
            /\ UNCHANGED << messageClosed, messageIter, closeReason, entryClosed, ePc, eStream, cPhase >>
       ELSE /\ MessageFinally(r = "error", IF r = "error" THEN "error" ELSE "end")
            \* firstPromiser.resolve() on done, firstPromiser.reject(e) on error
            /\ cPhase' = IF cPhase = "creating"
                         THEN (IF r = "done" THEN "ready" ELSE "rejected")
                         ELSE cPhase
  /\ UNCHANGED << skipToMetaId, lastMeta >>
  /\ UNCHANGED << curretnEntryAt, lastEntryAt, receivedSegment, backwardPromiser, fetchLog >>
  /\ UNCHANGED << endedId, server, connNo, carry, aborted >>
  /\ UNCHANGED << backwardVars, consumerVars >>

\* NicoliveMessageServer.fetchMessage resolved; the first one resolves
\* firstPromiser, which lets createConnectSet return the connect set
MsgFetchOk ==
  /\ mPc \in {"fetchFirst", "fetchSeg"}
  /\ UNCHANGED << supVars, sessionVars, libVars >>
  /\ mPc' = IF mPc = "fetchFirst" THEN "readFirst" ELSE "readSeg"
  /\ mStream' = SegMsgs(Head(mStream))
  /\ cPhase' = IF cPhase = "creating" THEN "ready" ELSE cPhase
  /\ UNCHANGED << skipToMetaId, lastMeta, messageClosed, messageIter, closeReason >>
  /\ UNCHANGED << endedId, server, connNo, carry, aborted >>
  /\ UNCHANGED << entryVars, backwardVars, consumerVars >>

\* one turn of the `for await` loop over the messages of a segment
MsgReceive ==
  /\ mPc \in {"readFirst", "readSeg"}
  /\ UNCHANGED << supVars, sessionVars, libVars >>
  /\ mStream # << >>
  /\ LET id == Head(mStream)
         it == EnqueueMessage(messageIter, skipToMetaId, id)
         filtered == messageIter.state = "iterating"
     IN
       /\ lastMeta' = IF filtered THEN id ELSE lastMeta
       /\ skipToMetaId' = IF filtered THEN FilterAfter(skipToMetaId, id) ELSE skipToMetaId
       /\ IF checkCloseMessage(id)
          THEN /\ mPc' = "done"
               /\ mStream' = << >>
               /\ messageClosed' = TRUE
               /\ messageIter' = Close(it)
               /\ closeReason' = IF closeReason = "none" THEN "ended" ELSE closeReason
               /\ entryClosed' = TRUE
               /\ ePc' = "done"
               /\ eStream' = << >>
               /\ entryIter' = Close(entryIter)
          ELSE /\ mStream' = Tail(mStream)
               /\ messageIter' = it
               /\ UNCHANGED << mPc, messageClosed, closeReason, entryClosed, ePc, eStream, entryIter >>
  /\ UNCHANGED << curretnEntryAt, lastEntryAt, receivedSegment, backwardPromiser, fetchLog >>
  /\ UNCHANGED << setVars, backwardVars, consumerVars >>

\* the segment stream ended: back to the loop over the entry iterator
MsgSegmentEnd ==
  /\ mPc \in {"readFirst", "readSeg"}
  /\ UNCHANGED << supVars, sessionVars, libVars >>
  /\ mStream = << >>
  /\ mPc' = "waitSeg"
  /\ UNCHANGED << mStream, skipToMetaId, lastMeta, messageClosed, messageIter, closeReason >>
  /\ UNCHANGED << setVars, entryVars, backwardVars, consumerVars >>

\* a segment fetch or the read of its body failed (network or decode error)
MsgError ==
  /\ mPc \in {"fetchFirst", "fetchSeg", "readFirst", "readSeg"}
  /\ UNCHANGED << supVars, sessionVars, libVars >>
  /\ MessageFinally(TRUE, "error")
  /\ cPhase' = IF cPhase = "creating" THEN "rejected" ELSE cPhase
  /\ UNCHANGED << skipToMetaId, lastMeta >>
  /\ UNCHANGED << curretnEntryAt, lastEntryAt, receivedSegment, backwardPromiser, fetchLog >>
  /\ UNCHANGED << endedId, server, connNo, carry, aborted >>
  /\ UNCHANGED << backwardVars, consumerVars >>

(***************************************************************************)
(* The caller: abort, reconnect                                            *)
(***************************************************************************)
\* abortController.abort(): both safeClose listeners run, the pending fetches
\* reject with AbortError and neither task throws into its iterator set
Abort ==
  /\ ~aborted
  /\ UNCHANGED << supVars, sessionVars, libVars >>
  /\ cPhase \in {"creating", "ready"}
  /\ ~(entryClosed /\ messageClosed)
  /\ aborted' = TRUE
  /\ cPhase' = IF cPhase = "creating"
               THEN (IF mPc = "waitFirst" /\ entryIter.queue = << >> THEN "ready" ELSE "rejected")
               ELSE cPhase
  /\ backwardPromiser' =
       IF backwardPromiser.state = "pending"
       THEN [backwardPromiser EXCEPT !.state = "rejected"] ELSE backwardPromiser
  /\ ePc' = "done"
  /\ eStream' = << >>
  /\ entryClosed' = TRUE
  /\ entryIter' = Close(entryIter)
  /\ mPc' = IF mPc = "notStarted" THEN mPc ELSE "done"
  /\ mStream' = << >>
  /\ messageClosed' = (mPc # "notStarted")
  /\ messageIter' = Close(messageIter)
  /\ closeReason' = IF closeReason = "none" THEN "abort" ELSE closeReason
  /\ UNCHANGED << curretnEntryAt, lastEntryAt, receivedSegment, fetchLog >>
  /\ UNCHANGED << skipToMetaId, lastMeta >>
  /\ UNCHANGED << endedId, server, connNo, carry >>
  /\ UNCHANGED << backwardVars, consumerVars >>

\* variant: reconnect() passes no backwardUri
ReconnectOptions_noBackwardUri ==
  [at |-> lastEntryAt, skipToMetaId |-> lastMeta, hasBackwardUri |-> FALSE,
   backwardUri |-> currentBackwardUri]

\* the options reconnect() passes to createConnectSet
ReconnectOptions ==
  [at |-> lastEntryAt, skipToMetaId |-> lastMeta, hasBackwardUri |-> TRUE,
   backwardUri |-> currentBackwardUri]

\* connector.reconnect(): nothing unless both fetchers are closed; otherwise
\* createConnectSet with the carried-over state.  When the previous
\* createConnectSet call was rejected, connectSet is still the one before.
Reconnect ==
  /\ connNo < MaxConn
  /\ UNCHANGED << supVars, sessionVars, libVars >>
  /\ \/ cPhase = "ready" /\ entryClosed /\ messageClosed
     \/ cPhase = "rejected" /\ connNo > 1
  /\ LET options == IF cPhase = "ready" THEN ReconnectOptions ELSE carry IN
       /\ carry' = options
       /\ curretnEntryAt' = options.at
       /\ lastEntryAt' = options.at
       /\ skipToMetaId' = options.skipToMetaId
  \* the consumer reads the iterator of the closed connect set to its end
  \* before it takes the iterator of the new one
  /\ got' =
       IF cPhase = "ready"
       THEN got \o [i \in 1..Len(messageIter.queue) |->
                      [conn |-> connNo, kind |-> "value", id |-> messageIter.queue[i]]]
       ELSE got
  /\ connNo' = connNo + 1
  /\ cPhase' = "creating"
  /\ aborted' = FALSE
  /\ ePc' = "fetch"
  /\ eStream' = << >>
  /\ receivedSegment' = FALSE
  /\ backwardPromiser' = [state |-> "pending", value |-> NoBackwardUri]
  /\ entryClosed' = FALSE
  /\ entryIter' = NewIteratorSet
  /\ mPc' = "notStarted"
  /\ mStream' = << >>
  /\ lastMeta' = 0
  /\ messageClosed' = FALSE
  /\ messageIter' = NewIteratorSet
  /\ closeReason' = "none"
  /\ fetchingBackwardSegment' = FALSE
  /\ cEnded' = FALSE
  /\ fetchLog' = NewFetchLog
  /\ UNCHANGED << endedId, server, currentBackwardUri, backwardCalls, backwardResults >>

(***************************************************************************)
(* getBackwardMessages of the message fetcher                              *)
(***************************************************************************)
MaxSegmentCounts == {1, 2}

BackwardUriOf(uri, isSnapshot) == IF isSnapshot THEN uri.snapshot ELSE uri.segment

\* the value of fetchingBackwardSegment when getBackwardMessages returns an
\* accepted call: line 542 sets it, line 563 clears it before the return
FlagAfterAccept == FALSE

\* the synchronous part of getBackwardMessages: refused (undefined) while the
\* flag is set or the URI is absent; otherwise the fetch of the first page is
\* started and the call object is returned
GetBackwardMessages(maxSegmentCount, isSnapshot) ==
  /\ cPhase = "ready"
  /\ UNCHANGED << supVars, sessionVars, libVars >>
  /\ Len(backwardCalls) < MaxBackwardCalls
  /\ Len(backwardCalls) + Len(backwardResults) < MaxBackwardResults
  /\ ~fetchingBackwardSegment
  /\ BackwardUriOf(currentBackwardUri, isSnapshot) # 0
  /\ backwardCalls' =
       Append(backwardCalls,
              [conn |-> connNo,
               nextUri |-> BackwardUriOf(currentBackwardUri, isSnapshot),
               buf |-> << >>,
               pages |-> << >>,
               maxSegmentCount |-> maxSegmentCount,
               isSnapshot |-> isSnapshot])
  /\ fetchingBackwardSegment' = FlagAfterAccept
  /\ UNCHANGED << currentBackwardUri, backwardResults >>
  /\ UNCHANGED << setVars, entryVars, messageVars, consumerVars >>

RemoveAt(seq, i) == [j \in 1..(Len(seq) - 1) |-> IF j < i THEN seq[j] ELSE seq[j + 1]]

RECURSIVE Flatten(_)
Flatten(pages) == IF pages = << >> THEN << >> ELSE Head(pages) \o Flatten(Tail(pages))

\* variant: the pages are kept in the order they were fetched
Reverse_inPlace(seq) == seq

\* buf.reverse()
Reverse(seq) == [i \in 1..Len(seq) |-> seq[Len(seq) + 1 - i]]

\* a page of the pending call i arrived and was decoded
\* (NicoliveMessageServer.fetchBackwardMessages); after the last page the
\* continuation of getBackwardMessages stores the URIs and may safeClose
BackwardPageOk(i) ==
  /\ i \in 1..Len(backwardCalls)
  /\ UNCHANGED << supVars, sessionVars, libVars >>
  /\ LET call == backwardCalls[i]
         packed == PackedSegment(call.nextUri)
         nextUri == IF call.isSnapshot THEN packed.snapshot ELSE packed.next
         buf == Append(call.buf, packed.messages)
         finished == nextUri = 0 \/ Len(buf) >= call.maxSegmentCount
         messages == Flatten(Reverse(buf))
         mine == call.conn = connNo
         closes == mine /\ checkCloseMessage(messages[Len(messages)]) /\ mPc # "notStarted"
     IN
       IF ~finished
       THEN /\ backwardCalls' = [backwardCalls EXCEPT ![i].nextUri = nextUri, ![i].buf = buf,
                                                      ![i].pages = Append(@, call.nextUri)]
            /\ UNCHANGED << currentBackwardUri, backwardResults, entryVars, messageVars >>
       ELSE /\ backwardCalls' = RemoveAt(backwardCalls, i)
            /\ backwardResults' =
                 Append(backwardResults,
                        [settled |-> "resolved", failed |-> FALSE, aborted |-> FALSE, mine |-> mine,
                         isSnapshot |-> call.isSnapshot,
                         pages |-> Append(call.pages, call.nextUri),
                         messages |-> messages,
                         uriBefore |-> currentBackwardUri,
                         uriAfter |-> IF mine THEN [segment |-> packed.next,
                                                    snapshot |-> packed.snapshot]
                                      ELSE currentBackwardUri])
            /\ currentBackwardUri' =
                 IF mine THEN [segment |-> packed.next, snapshot |-> packed.snapshot]
                 ELSE currentBackwardUri
            /\ IF closes /\ ~messageClosed
               THEN /\ MessageFinally(FALSE, "backward")
                    /\ UNCHANGED << skipToMetaId, lastMeta, curretnEntryAt, lastEntryAt,
                                    receivedSegment, backwardPromiser, fetchLog >>
               ELSE UNCHANGED << entryVars, messageVars >>
  /\ UNCHANGED << fetchingBackwardSegment >>
  /\ UNCHANGED << setVars, consumerVars >>

\* the fetch of a page of the pending call i failed: the promise rejects
BackwardPageFail(i) ==
  /\ i \in 1..Len(backwardCalls)
  /\ UNCHANGED << supVars, sessionVars, libVars >>
  /\ backwardCalls' = RemoveAt(backwardCalls, i)
  /\ backwardResults' =
       Append(backwardResults,
              [settled |-> "rejected", failed |-> TRUE, aborted |-> FALSE,
               mine |-> backwardCalls[i].conn = connNo,
               isSnapshot |-> backwardCalls[i].isSnapshot,
               pages |-> backwardCalls[i].pages,
               messages |-> << >>,
               uriBefore |-> currentBackwardUri,
               uriAfter |-> currentBackwardUri])
  /\ UNCHANGED << currentBackwardUri, fetchingBackwardSegment >>
  /\ UNCHANGED << setVars, entryVars, messageVars, consumerVars >>

\* variant: no error is ever taken for an abort
isAbortError_never(name, signalIsAborted) == FALSE

\* isAbortError(error, signal)
isAbortError(name, signalIsAborted) == signalIsAborted /\ name = "AbortError"

\* abortController.abort() of the pending call i: the pending fetch or sleep
\* rejects with an AbortError, which the catch of fetchBackwardMessages
\* swallows; the pages decoded so far are returned and the continuation of
\* getBackwardMessages stores the URIs of the last decoded page (undefined
\* when no page was decoded) and may safeClose
BackwardAbort(i) ==
  /\ i \in 1..Len(backwardCalls)
  /\ UNCHANGED << supVars, sessionVars, libVars >>
  /\ LET call == backwardCalls[i]
         n == Len(call.pages)
         messages == Flatten(Reverse(call.buf))
         mine == call.conn = connNo
         uris == IF n = 0 THEN NoBackwardUri
                 ELSE [segment |-> PackedSegment(call.pages[n]).next,
                       snapshot |-> PackedSegment(call.pages[n]).snapshot]
         closes == /\ mine
                   /\ messages # << >>
                   /\ checkCloseMessage(messages[Len(messages)])
                   /\ mPc # "notStarted"
     IN
       /\ backwardCalls' = RemoveAt(backwardCalls, i)
       /\ IF isAbortError("AbortError", TRUE)
          THEN /\ backwardResults' =
                    Append(backwardResults,
                           [settled |-> "resolved", failed |-> FALSE, aborted |-> TRUE,
                            mine |-> mine,
                            isSnapshot |-> call.isSnapshot,
                            pages |-> call.pages,
                            messages |-> messages,
                            uriBefore |-> currentBackwardUri,
                            uriAfter |-> IF mine THEN uris ELSE currentBackwardUri])
               /\ currentBackwardUri' = IF mine THEN uris ELSE currentBackwardUri
               /\ IF closes /\ ~messageClosed
                  THEN /\ MessageFinally(FALSE, "backward")
                       /\ UNCHANGED << skipToMetaId, lastMeta, curretnEntryAt, lastEntryAt,
                                       receivedSegment, backwardPromiser, fetchLog >>
                  ELSE UNCHANGED << entryVars, messageVars >>
          ELSE /\ backwardResults' =
                    Append(backwardResults,
                           [settled |-> "rejected", failed |-> FALSE, aborted |-> TRUE,
                            mine |-> mine,
                            isSnapshot |-> call.isSnapshot,
                            pages |-> call.pages,
                            messages |-> << >>,
                            uriBefore |-> currentBackwardUri,
                            uriAfter |-> currentBackwardUri])
               /\ UNCHANGED << currentBackwardUri, entryVars, messageVars >>
  /\ UNCHANGED << fetchingBackwardSegment >>
  /\ UNCHANGED << setVars, consumerVars >>

(***************************************************************************)
(* The consumer of connector.getIterator()                                 *)
(***************************************************************************)
\* next() on the iterator of the current connect set
ReadLive ==
  /\ cPhase = "ready"
  /\ UNCHANGED << supVars, sessionVars, libVars >>
  /\ ~cEnded
  /\ NextResult(messageIter) # "pending"
  /\ LET r == NextResult(messageIter) IN
       IF r = "value"
       THEN /\ got' = Append(got, [conn |-> connNo, kind |-> "value", id |-> Head(messageIter.queue)])
            /\ messageIter' = [messageIter EXCEPT !.queue = Tail(@)]
            /\ UNCHANGED cEnded
       ELSE /\ got' = Append(got, [conn |-> connNo, kind |-> r, id |-> 0])
            /\ cEnded' = TRUE
            /\ UNCHANGED messageIter
  /\ UNCHANGED << mPc, mStream, skipToMetaId, lastMeta, messageClosed, closeReason >>
  /\ UNCHANGED << setVars, entryVars, backwardVars >>

(***************************************************************************)
(* Part B.  The supervisor NicoliveClient, its NicoliveWsClient and its    *)
(* NicoliveMessageClient.  The handlers call each other synchronously      *)
(* through the event triggers, so they are operators on a record S of the  *)
(* supervisor's state; an action applies the handler of one event to the   *)
(* current state, runs the promise continuations that became ready, and    *)
(* stores the result.                                                      *)
(***************************************************************************)
\* number of WebSockets the supervisor constructs
MaxSockets == 7
\* number of network failures of the message stream
MaxFailures == 1
\* audience tokens: the first one and those of the reconnect frames
MaxToken == 2
\* number of close() calls of the caller
MaxCloseCalls == 1
\* number of reconnect() calls of the caller
MaxReconnectCalls == 1

\* variant: a sixth interval
_reconnectIntervalsSec_six == << 5, 10, 15, 30, 30, 30 >>

_reconnectIntervalsSec == << 5, 10, 15, 30, 30 >>

NewWsClient(token, reconnect) ==
  [readyState |-> "CONNECTING", reconnect |-> reconnect, token |-> token,
   served |-> FALSE]

NoMessageClient ==
  [exists |-> FALSE, _connecting |-> FALSE, _closeReservation |-> FALSE]

NewMessageClient ==
  [exists |-> TRUE, _connecting |-> FALSE, _closeReservation |-> FALSE]

\* the supervisor's state as one record; resolved holds the onoff promises
\* resolved by the running handler, whose continuations run after it
Cur ==
  [states |-> states, _reconnecting |-> _reconnecting,
   _lastFetchMessage |-> _lastFetchMessage, websocketUrl |-> websocketUrl,
   wsClient |-> wsClient, wsCount |-> wsCount, sent |-> sent,
   messageClient |-> messageClient, listeners |-> listeners,
   handlers |-> handlers, timers |-> timers, reconnectCalls |-> reconnectCalls,
   events |-> events, resolved |-> << >>]

\* NicoliveWsClient.isConnect
WsIsConnect(S) == S.wsClient.readyState \in {"CONNECTING", "OPEN"}

\* NicoliveMessageClient.isConnect (of this.messageClient?)
McIsConnect(S) ==
  S.messageClient.exists /\ S.messageClient._connecting
    /\ ~S.messageClient._closeReservation

\* onState.emit(state, description): the listeners registered by _reconnectWs
\* resolve their promise on "opened" (true) and "reconnect_failed" (false)
Publish(S, state, description) ==
  LET S1 == [S EXCEPT !.states = Append(@, [state |-> state, description |-> description])] IN
    IF state \in {"opened", "reconnect_failed"}
    THEN [S1 EXCEPT
            !.resolved = @ \o [k \in 1..Len(S.listeners) |->
                                 [owner |-> S.listeners[k], value |-> (state = "opened")]],
            !.listeners = << >>]
    ELSE S1

RECURSIVE SupClose(_, _), WsClientClose(_, _), McClose(_)

\* NicoliveClient.close(description)
SupClose(S, description) ==
  LET S1 == Publish(S, IF S._reconnecting THEN "reconnect_failed" ELSE "disconnected",
                    description)
  IN McClose(WsClientClose(S1, FALSE))

\* NicoliveWsClient.close(reconnection): onWsState "disconnected" reaches the
\* supervisor's listener, which calls close("ws_close")
WsClientClose(S, reconnection) ==
  IF ~WsIsConnect(S) THEN S
  ELSE LET S1 == [S EXCEPT !.wsClient.readyState = "CLOSING"] IN
         IF reconnection THEN S1 ELSE SupClose(S1, "ws_close")

\* NicoliveMessageClient.close(): onMessageState "disconnected" reaches the
\* supervisor's listener, which calls close("message_close")
McClose(S) ==
  IF ~McIsConnect(S) THEN S
  ELSE SupClose([S EXCEPT !.messageClient._closeReservation = TRUE], "message_close")

\* NicoliveMessageClient.connect up to the first fetch: onMessageState
\* "opened" reaches the supervisor's listener, which publishes "opened"
McConnect(S) ==
  IF S.messageClient._connecting
  THEN IF S.messageClient._closeReservation
       THEN Publish([S EXCEPT !.messageClient._closeReservation = FALSE],
                    "opened", "undefined")
       ELSE S
  ELSE Publish([S EXCEPT !.messageClient._closeReservation = FALSE,
                         !.messageClient._connecting = TRUE],
               "opened", "undefined")

\* NicoliveClient.onMessageServer; with no _lastFetchMessage the reconnect
\* branch throws a TypeError before connect is called
OnMessageServer(S) ==
  IF S._reconnecting /\ S.messageClient.exists
  THEN IF S._lastFetchMessage = "none" THEN S ELSE McConnect(S)
  ELSE McConnect([S EXCEPT !.messageClient = NewMessageClient])

\* NicoliveClient._reconnectWs up to its await; owner is 0 for reconnect()
\* and the index of the invocation for onConnectErrorCatch
ReconnectWs(S, owner) ==
  LET S1 == WsClientClose(S, TRUE) IN
    [S1 EXCEPT !.wsClient = NewWsClient(S1.websocketUrl, TRUE),
               !.wsCount = @ + 1,
               !.listeners = Append(@, owner)]

\* one invocation of onConnectErrorCatch: where it is, the index of the
\* interval it is at, the waits and results of its attempts, the number of
\* states published when it started and the state that was the last
\* published one when it gave up
NewHandler(S) ==
  [pc |-> "sleep", idx |-> 1, attempts |-> << >>, from |-> Len(S.states),
   final |-> "none"]

LastState(S) == S.states[Len(S.states)].state

\* the code after `await this._reconnectWs()` of the owner of a resolved
\* onoff promise: reconnect() (owner 0) or the loop of onConnectErrorCatch
Continue(S, r) ==
  IF r.owner = 0
  THEN IF r.value
       THEN [S EXCEPT !._reconnecting = FALSE]
       ELSE SupClose([S EXCEPT !._reconnecting = FALSE], "reconnect_failed")
  ELSE LET h == S.handlers[r.owner]
           n == Len(h.attempts)
       IN IF r.value
          THEN [S EXCEPT !._reconnecting = FALSE,
                         !.handlers[r.owner].pc = "done",
                         !.handlers[r.owner].attempts[n].result = "ok"]
          ELSE IF h.idx < Len(_reconnectIntervalsSec)
          THEN [S EXCEPT !.handlers[r.owner].pc = "sleep",
                         !.handlers[r.owner].idx = @ + 1,
                         !.handlers[r.owner].attempts[n].result = "failed"]
          ELSE LET S1 == SupClose([S EXCEPT !._reconnecting = FALSE,
                                            !.handlers[r.owner].pc = "done",
                                            !.handlers[r.owner].attempts[n].result = "failed"],
                                  "reconnect_failed")
               IN [S1 EXCEPT !.handlers[r.owner].final = LastState(S1)]

RECURSIVE RunContinuations(_)
RunContinuations(S) ==
  IF S.resolved = << >> THEN S
  ELSE RunContinuations(Continue([S EXCEPT !.resolved = Tail(@)], Head(S.resolved)))

\* the handler has run to its end and the ready continuations after it
Commit(S0) ==
  LET S == RunContinuations(S0) IN
    /\ states' = S.states
    /\ _reconnecting' = S._reconnecting
    /\ _lastFetchMessage' = S._lastFetchMessage
    /\ websocketUrl' = S.websocketUrl
    /\ wsClient' = S.wsClient
    /\ wsCount' = S.wsCount
    /\ sent' = S.sent
    /\ messageClient' = S.messageClient
    /\ listeners' = S.listeners
    /\ handlers' = S.handlers
    /\ timers' = S.timers
    /\ reconnectCalls' = S.reconnectCalls
    /\ events' = S.events

\* NicoliveClient.canReconnect
CanReconnect(S) == ~S._reconnecting /\ S._lastFetchMessage # "ended"

\* NicoliveClient.reconnect up to its await
DoReconnect(S) ==
  IF WsIsConnect(S) /\ McIsConnect(S) THEN S
  ELSE IF ~CanReconnect(S) THEN S
  ELSE ReconnectWs(Publish([S EXCEPT !._reconnecting = TRUE], "reconnecting", "undefined"), 0)

\* NicoliveClient.onConnectErrorCatch up to its first await
OnConnectErrorCatch(S, message) ==
  IF message = "Failed to fetch"
  THEN LET S1 == WsClientClose(
                   Publish([S EXCEPT !._reconnecting = TRUE], "reconnecting", "undefined"),
                   TRUE)
       IN [S1 EXCEPT !.handlers = Append(@, NewHandler(S1))]
  ELSE SupClose(S, "unknown")

\* the end of NicoliveMessageClient.connect, by the end of the stream or by
\* an error: "disconnected" on onMessageState unless a close is reserved
McFinish(S) ==
  LET S1 == [S EXCEPT !.messageClient._connecting = FALSE]
      S2 == IF S.messageClient._closeReservation THEN S1 ELSE SupClose(S1, "message_close")
  IN [S2 EXCEPT !.messageClient._closeReservation = FALSE]

\* the supervisor has published "opened" and both clients are connected
SupOpened(S) ==
  /\ LastState(S) = "opened"
  /\ S.wsClient.readyState = "OPEN"
  /\ McIsConnect(S)

SupInit ==
  /\ states = << [state |-> "connecting", description |-> "undefined"] >>
  /\ _reconnecting = FALSE
  /\ _lastFetchMessage = "none"
  /\ websocketUrl = 1
  /\ wsClient = NewWsClient(1, FALSE)
  /\ wsCount = 1
  /\ sent = << >>
  /\ messageClient = NoMessageClient
  /\ listeners = << >>
  /\ handlers = << >>
  /\ timers = << >>
  /\ reconnectCalls = 0
  /\ events = << >>

\* WebSocket open event: NicoliveWsClient.onOpen
WsOpen ==
  /\ wsClient.readyState = "CONNECTING"
  /\ Commit([Cur EXCEPT
       !.wsClient.readyState = "OPEN",
       !.sent = Append(@, [type |-> "startWatching", reconnect |-> wsClient.reconnect,
                           token |-> wsClient.token])])
  /\ UNCHANGED << connVars, sessionVars, libVars >>

\* the messageServer frame, which the server sends once on a socket
WsMessageServer ==
  /\ wsClient.readyState = "OPEN"
  /\ ~wsClient.served
  /\ Commit(OnMessageServer([Cur EXCEPT !.wsClient.served = TRUE]))
  /\ UNCHANGED << connVars, sessionVars, libVars >>

\* the reconnect frame: NicoliveClient.onReconnect
WsReconnectFrame ==
  /\ wsClient.readyState = "OPEN"
  /\ websocketUrl < MaxToken
  /\ Commit([Cur EXCEPT !.websocketUrl = @ + 1,
                        !.timers = Append(@, [opened |-> SupOpened(Cur)])])
  /\ UNCHANGED << connVars, sessionVars, libVars >>

\* the socket fails or the server closes it: NicoliveWsClient.onClose
WsServerClose ==
  /\ WsIsConnect(Cur)
  /\ Commit(SupClose([Cur EXCEPT !.wsClient.readyState = "CLOSED"], "ws_close"))
  /\ UNCHANGED << connVars, sessionVars, libVars >>

\* the timer of onReconnect fires
TimerFire ==
  /\ wsCount < MaxSockets
  /\ \E i \in 1..Len(timers) :
       Commit(DoReconnect([Cur EXCEPT !.timers = RemoveAt(@, i)]))
  /\ UNCHANGED << connVars, sessionVars, libVars >>

\* the caller calls reconnect()
CallReconnect ==
  /\ wsCount < MaxSockets
  /\ reconnectCalls < MaxReconnectCalls
  /\ Commit(DoReconnect([Cur EXCEPT !.reconnectCalls = @ + 1]))
  /\ UNCHANGED << connVars, sessionVars, libVars >>

\* the caller calls close()
CallClose ==
  /\ Cardinality({ k \in 1..Len(states) : states[k].description = "user" }) < MaxCloseCalls
  /\ Commit(SupClose(Cur, "user"))
  /\ UNCHANGED << connVars, sessionVars, libVars >>

\* what the handler of one event of the message stream published: the
\* states from + 1 .. to, with sockets WebSockets constructed so far
LogEvent(S, type, detail, from) ==
  [S EXCEPT !.events = Append(@, [type |-> type, detail |-> detail, from |-> from,
                                  to |-> Len(S.states), sockets |-> S.wsCount])]

\* NicoliveMessageClient.receiveMessage: close() on a program-ended state
\* message, then onMessage
ReceiveMessage(S, kind) ==
  IF kind = "ended" THEN LogEvent(McClose(S), "ended", kind, Len(S.states)) ELSE S

\* NicoliveClient.onMessage_updateLast: a message without meta.at is not kept
OnMessage_updateLast(S, kind, hasAt) ==
  IF hasAt THEN [S EXCEPT !._lastFetchMessage = kind] ELSE S

\* the message stream delivers a message, with or without meta.at
McMessage(kind, hasAt) ==
  /\ messageClient._connecting
  /\ ~messageClient._closeReservation
  /\ Commit(OnMessage_updateLast(ReceiveMessage(Cur, kind), kind, hasAt))
  /\ UNCHANGED << connVars, sessionVars, libVars >>

\* the loop of connect sees the reserved close and leaves silently
McObserveClose ==
  /\ messageClient._connecting
  /\ messageClient._closeReservation
  /\ Commit(McFinish(Cur))
  /\ UNCHANGED << connVars, sessionVars, libVars >>

\* the entry stream ends without a next entry
McEnd ==
  /\ messageClient._connecting
  /\ Commit(McFinish(Cur))
  /\ UNCHANGED << connVars, sessionVars, libVars >>

\* the messages of the errors a fetch of the message stream throws: the
\* TypeError of a rejected fetch, NicoliveFetchError for a response that is
\* not ok, NicoliveNetworkError for a failed read of the body
FetchErrorMessages == {"Failed to fetch", "Failed fetch. status", "network error"}

\* a fetch of the message stream throws; connect rethrows to
\* onConnectErrorCatch
McFail(message) ==
  /\ messageClient._connecting
  /\ message = "Failed to fetch" => Len(handlers) < MaxFailures
  /\ Commit(LogEvent(OnConnectErrorCatch(McFinish(Cur), message),
                     "fetch_error", message, Len(states)))
  /\ UNCHANGED << connVars, sessionVars, libVars >>

\* the sleep of onConnectErrorCatch is over: the next attempt
HandlerWake(h) ==
  /\ h \in 1..Len(handlers)
  /\ handlers[h].pc = "sleep"
  /\ wsCount < MaxSockets
  /\ Commit(ReconnectWs(
       [Cur EXCEPT !.handlers[h].pc = "await",
                   !.handlers[h].attempts =
                      Append(@, [wait |-> _reconnectIntervalsSec[handlers[h].idx],
                                 result |-> "pending"])],
       h))
  /\ UNCHANGED << connVars, sessionVars, libVars >>

\* the events both specifications of the supervisor share
WatchNext ==
  \/ WsOpen
  \/ WsMessageServer
  \/ WsServerClose
  \/ CallClose
  \/ \E kind \in {"chat", "ended"}, hasAt \in BOOLEAN : McMessage(kind, hasAt)
  \/ McObserveClose
  \/ McEnd

\* the supervisor under failures of the message stream
RetryNext ==
  \/ WatchNext
  \/ \E message \in FetchErrorMessages : McFail(message)
  \/ \E h \in 1..MaxFailures : HandlerWake(h)

\* the supervisor under reconnect frames and reconnect() calls
ReconnectNext ==
  \/ WatchNext
  \/ WsReconnectFrame
  \/ TimerFire
  \/ CallReconnect

\* the connector of part A is not used by the supervisor
(***************************************************************************)
(* Part C.  One watch session: NicoliveWs.connectWaitOpened on top of      *)
(* lib/websocket connectWsAndAsyncIterable.  A frame in the iterator set   *)
(* is its index in `inbound`.                                              *)
(***************************************************************************)
MaxFrames == 3

FrameTypes ==
  {"ping", "schedule", "messageServer", "statistics", "reconnect", "disconnect"}

DisconnectReasons == {"END_PROGRAM", "TAKEOVER"}

NoError == [name |-> "none", reason |-> "none"]

NicoliveWebSocketReconnectError ==
  [name |-> "NicoliveWebSocketReconnectError", reason |-> "none"]

NicoliveWebSocketDisconnectError(reason) ==
  [name |-> "NicoliveWebSocketDisconnectError", reason |-> reason]

AbortError == [name |-> "AbortError", reason |-> "none"]

\* throw(reason) of an iterator set that keeps the latched error
ThrowErrorWith(it, e) ==
  IF it.state # "iterating" THEN it ELSE [ThrowError(it) EXCEPT !.error = e]

send(w, type) == [w EXCEPT !.sent = Append(@, type)]

\* the serialised startWatching message: JSON.stringify keeps the boolean
\* reconnect field of its data
startWatching(reconnect) ==
  IF reconnect THEN "startWatching{reconnect:true}" ELSE "startWatching{reconnect:false}"

\* variant: the reconnect field is always false
sendStartWatching_neverReconnect(w, reconnect) == send(w, startWatching(FALSE))

sendStartWatching(w, reconnect) == send(w, startWatching(reconnect))

\* variant: keepSeat before pong
sendKeepSeatAndPong_keepSeatFirst(w) == send(send(w, "keepSeat"), "pong")

sendKeepSeatAndPong(w) == send(send(w, "pong"), "keepSeat")

\* ws.close() of the caller side
WsClose(w) ==
  IF w.readyState \in {"CLOSING", "CLOSED"} THEN w
  ELSE [w EXCEPT !.readyState = "CLOSING"]

\* reconnectData.messageServerData; the data of a messageServer frame is
\* named by the position of the frame among the inbound frames
CarriedData == -1

\* variant: a later resolve replaces the value
PromiserResolve_overwrite(p, value) == [state |-> "resolved", value |-> value]

\* resolve of a promiser: a settled promise stays as it is
PromiserResolve(p, value) ==
  IF p.state = "pending" THEN [state |-> "resolved", value |-> value] ELSE p

\* reject of a promiser
PromiserReject(p) ==
  IF p.state = "pending" THEN [state |-> "rejected", value |-> 0] ELSE p

WatchInitOf(r) ==
  /\ watchPc = "opening"
  /\ watchReconnect = r
  /\ ws = [readyState |-> "CONNECTING", sent |-> << >>]
  /\ iteratorSet = [queue |-> << >>, state |-> "iterating", error |-> NoError]
  /\ messageServerData = IF r THEN [state |-> "given", value |-> CarriedData]
                                ELSE [state |-> "pending", value |-> 0]
  /\ watchUrl = 0
  /\ signalAborted = FALSE
  /\ inbound = << >>
  /\ received = << >>
  /\ iterEnd = "none"

WatchIdle == WatchInitOf(FALSE)

WatchInit == \E r \in BOOLEAN : WatchInitOf(r)

\* the open event: connectWsAndAsyncIterable returns, startWatching is sent
SessionOpen ==
  /\ UNCHANGED << connVars, supVars, libVars >>
  /\ watchPc = "opening"
  /\ ws.readyState = "CONNECTING"
  /\ watchPc' = "returned"
  /\ ws' = sendStartWatching([ws EXCEPT !.readyState = "OPEN"], watchReconnect)
  /\ UNCHANGED << watchReconnect, iteratorSet, messageServerData, watchUrl,
                  signalAborted, inbound, received, iterEnd >>

\* onMessage of connectWaitOpened: the effect of one frame on the iterator set
OnMessageIter(it, type, reason, id) ==
  LET thrown ==
        IF type = "reconnect" THEN ThrowErrorWith(it, NicoliveWebSocketReconnectError)
        ELSE IF type = "disconnect"
          THEN ThrowErrorWith(it, NicoliveWebSocketDisconnectError(reason))
        ELSE it
  IN Enqueue(thrown, id)

\* a message event: the receiver onMessage, then the enqueue of its result by
\* the listener of connectWsAndAsyncIterable
SessionFrame(type, reason) ==
  /\ UNCHANGED << connVars, supVars, libVars >>
  /\ watchPc = "returned"
  /\ ws.readyState = "OPEN"
  /\ Len(inbound) < MaxFrames
  /\ LET id == Len(inbound) + 1 IN
       /\ inbound' = Append(inbound, [type |-> type, reason |-> reason])
       /\ ws' = IF type = "ping" THEN sendKeepSeatAndPong(ws)
                ELSE IF type = "reconnect" THEN WsClose(ws)
                ELSE ws
       /\ iteratorSet' = Enqueue(OnMessageIter(iteratorSet, type, reason, id), id)
       \* messageServerDataPromiser is undefined in a reconnection
       /\ messageServerData' =
            IF type = "messageServer" /\ ~watchReconnect
              THEN PromiserResolve(messageServerData, id) ELSE messageServerData
       /\ watchUrl' = IF type = "reconnect" THEN 1 ELSE watchUrl
  /\ UNCHANGED << watchPc, watchReconnect, signalAborted, received, iterEnd >>

\* the close event: cleanupAndCloseIter, which calls onClose
SessionCloseEvent ==
  /\ UNCHANGED << connVars, supVars, libVars >>
  /\ ws.readyState # "CLOSED"
  /\ ws' = [ws EXCEPT !.readyState = "CLOSED"]
  /\ watchPc' = IF watchPc = "opening" THEN "rejected" ELSE watchPc
  \* before the open event `ws` of connectWaitOpened is not initialised:
  \* onClose throws and the close of the iterator set is not reached
  /\ iteratorSet' = IF watchPc = "opening" THEN iteratorSet ELSE Close(iteratorSet)
  /\ UNCHANGED << watchReconnect, messageServerData, watchUrl, signalAborted,
                  inbound, received, iterEnd >>

\* the abort event of the signal: aborted(), while the listener is attached
\* and the session has returned
SessionAbort ==
  /\ UNCHANGED << connVars, supVars, libVars >>
  /\ ~ signalAborted
  /\ signalAborted' = TRUE
  /\ IF watchPc = "returned" /\ ws.readyState # "CLOSED"
       THEN /\ messageServerData' =
                 IF watchReconnect THEN messageServerData
                 ELSE PromiserReject(messageServerData)
            /\ iteratorSet' = Close(ThrowErrorWith(iteratorSet, AbortError))
            /\ ws' = WsClose(ws)
       ELSE UNCHANGED << messageServerData, iteratorSet, ws >>
  /\ UNCHANGED << watchPc, watchReconnect, watchUrl, inbound, received, iterEnd >>

\* the caller of the returned iterator: one settled next()
IterNext ==
  /\ UNCHANGED << connVars, supVars, libVars >>
  /\ watchPc = "returned"
  /\ iterEnd = "none"
  /\ NextResult(iteratorSet) # "pending"
  /\ IF NextResult(iteratorSet) = "value"
       THEN /\ received' = Append(received, Head(iteratorSet.queue))
            /\ iteratorSet' = [iteratorSet EXCEPT !.queue = Tail(@)]
            /\ UNCHANGED iterEnd
       ELSE /\ iterEnd' = NextResult(iteratorSet)
            /\ UNCHANGED << received, iteratorSet >>
  /\ UNCHANGED << watchPc, watchReconnect, ws, messageServerData, watchUrl,
                  signalAborted, inbound >>

SessionNext ==
  \/ SessionOpen
  \/ \E type \in FrameTypes :
       \E reason \in (IF type = "disconnect" THEN DisconnectReasons ELSE {"none"}) :
         SessionFrame(type, reason)
  \/ SessionCloseEvent
  \/ SessionAbort
  \/ IterNext

(***************************************************************************)
(* Part D.  lib/websocket ResponseIteratorSet.fetch: the fetch of a URI    *)
(* and the size-delimited decoding of the body.  A frame is the base-128   *)
(* varint of its payload length followed by the payload bytes; a decoded   *)
(* message is the payload slice handed to protobuf.fromBinary.             *)
(***************************************************************************)
\* frames of a body
MaxFrameCount == 2
\* bytes of the long payload
LongLen == 128
\* bytes of the largest chunk reader.read() delivers
MaxChunk == 2

Statuses == {200, 404}

\* a payload whose length needs a length prefix of two bytes
LongPayload == [i \in 1..LongLen |-> 3]

Payloads == {<< >>, <<1>>, <<0, 2>>, LongPayload}

\* a frame whose length byte announces more bytes than follow
TruncatedTails == {<< >>, <<2, 1>>}

\* the length prefix the server writes: the shortest base-128 varint of n
RECURSIVE Varint(_)
Varint(n) == IF n < 128 THEN << n >> ELSE << 128 + (n % 128) >> \o Varint(n \div 128)

FrameBytes(payload) == Varint(Len(payload)) \o payload

BodyOf(frames, tail) ==
  Flatten([i \in 1..Len(frames) |-> FrameBytes(frames[i])]) \o tail

FrameLists == UNION {[1..n -> Payloads] : n \in 0..MaxFrameCount}

\* new BinaryReader(buffer).uint32(): the bytes of a base-128 varint are read
\* from position pos on, the low seven bits of each byte first; a byte below
\* 128 is the last one.  A read past the end of the buffer makes the reader
\* throw a RangeError (premature EOF): eof is TRUE.  The lengths of the model
\* need at most two bytes, far from the 32 bits the reader keeps.
RECURSIVE varint32read(_, _, _, _)
varint32read(buf, pos, result, weight) ==
  IF pos > Len(buf) THEN [eof |-> TRUE, value |-> result, pos |-> pos]
  ELSE IF buf[pos] < 128
    THEN [eof |-> FALSE, value |-> result + buf[pos] * weight, pos |-> pos]
  ELSE varint32read(buf, pos + 1, result + (buf[pos] - 128) * weight, weight * 128)

uint32(buf) == varint32read(buf, 1, 0, 1)

\* the inner while loop of sizeDelimitedDecodeStream on the buffer `buf`,
\* with the messages yielded so far in `out`
RECURSIVE DecodeBuffer(_, _)
DecodeBuffer(buf, out) ==
  IF Len(buf) = 0 THEN [buffer |-> buf, out |-> out, error |-> "none"]
  ELSE LET r == uint32(buf)
           size == r.value
           offset == r.pos
       IN IF r.eof THEN [buffer |-> buf, out |-> out, error |-> "RangeError"]
          ELSE IF offset + size > Len(buf) THEN [buffer |-> buf, out |-> out, error |-> "none"]
          ELSE DecodeBuffer(SubSeq(buf, offset + size + 1, Len(buf)),
                            Append(out, SubSeq(buf, offset + 1, offset + size)))

StreamInitOf(statuses, lists, tails) ==
  /\ \E status \in statuses, hasBody \in BOOLEAN, frames \in lists, tail \in tails :
       res = [status |-> status, hasBody |-> hasBody,
              frames |-> frames, body |-> BodyOf(frames, tail)]
  /\ rPc = "fetching"
  /\ remaining = res.body
  /\ buffer = << >>
  /\ decoded = << >>
  /\ rError = "none"

StreamIdle == StreamInitOf({200}, {<< >>}, {<< >>}) /\ res.hasBody

StreamInit == StreamInitOf(Statuses, FrameLists, TruncatedTails)


\* fetch() resolved with the response: only a missing body throws
FetchResolve ==
  /\ UNCHANGED << connVars, supVars, sessionVars, channelVars, clockVars, backVars >>
  /\ rPc = "fetching"
  /\ IF res.hasBody
       THEN /\ rPc' = "reading"
            /\ UNCHANGED rError
       ELSE /\ rPc' = "failed"
            /\ rError' = "Error"
  /\ UNCHANGED << res, remaining, buffer, decoded >>

\* fetch() rejected: no response
FetchReject ==
  /\ UNCHANGED << connVars, supVars, sessionVars, channelVars, clockVars, backVars >>
  /\ rPc = "fetching"
  /\ rPc' = "failed"
  /\ rError' = "TypeError"
  /\ UNCHANGED << res, remaining, buffer, decoded >>

\* reader.read() delivered a chunk of n bytes: append, then decode every
\* complete frame of the buffer
ReadChunk(n) ==
  /\ UNCHANGED << connVars, supVars, sessionVars, channelVars, clockVars, backVars >>
  /\ rPc = "reading"
  /\ n \in 1..Len(remaining)
  /\ LET r == DecodeBuffer(buffer \o SubSeq(remaining, 1, n), decoded) IN
       /\ buffer' = r.buffer
       /\ decoded' = r.out
       \* an exception of the reader ends the generator
       /\ rPc' = IF r.error = "none" THEN rPc ELSE "failed"
       /\ rError' = r.error
  /\ remaining' = SubSeq(remaining, n + 1, Len(remaining))
  /\ UNCHANGED res

\* reader.read() answered done: the loops end and the iterator returns
ReadDone ==
  /\ UNCHANGED << connVars, supVars, sessionVars, channelVars, clockVars, backVars >>
  /\ rPc = "reading"
  /\ remaining = << >>
  /\ rPc' = "done"
  /\ UNCHANGED << res, remaining, buffer, decoded, rError >>

\* reader.read() rejected: the iterator throws what the reader threw
ReadFail ==
  /\ UNCHANGED << connVars, supVars, sessionVars, channelVars, clockVars, backVars >>
  /\ rPc = "reading"
  /\ rPc' = "failed"
  /\ rError' = "TypeError"
  /\ UNCHANGED << res, remaining, buffer, decoded >>

StreamNext ==
  \/ FetchResolve
  \/ FetchReject
  \/ \E n \in 1..MaxChunk : ReadChunk(n)
  \/ ReadDone
  \/ ReadFail

(***************************************************************************)
(* Part E.  lib/AsyncIteratorSet with the promises of its pending reads.   *)
(***************************************************************************)
ChannelInitOf(skipIds) ==
  /\ \E skipToId \in skipIds :
       channel = [queue |-> << >>, state |-> "iterating", error |-> "none",
                  filter |-> IF skipToId = 0 THEN "none" ELSE "skip",
                  skipToMetaId |-> skipToId,
                  resolveNext |-> 0, rejectNext |-> 0]
  /\ promises = << >>
  /\ enqueued = << >>
  /\ thrownAfter = -1

ChannelIdle == ChannelInitOf({0})

\* enqueue() calls
MaxEnqueue == 3
\* next() calls
MaxNext == 3
\* consumers of the shared iterator
MaxConsumers == 2

Values == {1, 2}

SkipIds == {0, 1}

ChannelInit == ChannelInitOf(SkipIds)

NewPromise(c) == [consumer |-> c, kind |-> "pending", value |-> 0]

\* resolve or reject of the promise p; settling a settled promise, or none
\* (p = 0), does nothing
Settle(ps, p, kind, value) ==
  IF p = 0 \/ ps[p].kind # "pending" THEN ps
  ELSE [ps EXCEPT ![p].kind = kind, ![p].value = value]

\* variant: the value whose meta id matches is kept
FilterVerdict_keepsMatch(ch, v) ==
  IF ch.filter = "skip"
    THEN IF v = ch.skipToMetaId THEN [keep |-> TRUE, filter |-> "meta"]
         ELSE [keep |-> FALSE, filter |-> ch.filter]
    ELSE [keep |-> TRUE, filter |-> ch.filter]

\* the filter of enqueue(): none, the skip-to-meta-id filter of
\* createMessageFetcher, or metaFilter, which the skip filter installs with
\* its verdict on the value whose meta id matches
FilterVerdict(ch, v) ==
  IF ch.filter = "skip"
    THEN IF v = ch.skipToMetaId THEN [keep |-> FALSE, filter |-> "meta"]
         ELSE [keep |-> FALSE, filter |-> ch.filter]
    ELSE [keep |-> TRUE, filter |-> ch.filter]

\* variant: the value is put in front of the queue
QueuePush_front(queue, v) == << v >> \o queue

\* queue.push(value)
QueuePush(queue, v) == Append(queue, v)

\* iterator.next() of consumer c
ChannelRead(c) ==
  /\ UNCHANGED << connVars, supVars, sessionVars, streamVars, clockVars, backVars >>
  /\ c \in 1..MaxConsumers
  /\ Len(promises) < MaxNext
  /\ \A p \in 1..Len(promises) :
       promises[p].consumer = c => promises[p].kind # "pending"
  /\ LET p == Len(promises) + 1 IN
       IF channel.queue # << >>
         THEN /\ promises' = Append(promises, [consumer |-> c, kind |-> "value",
                                               value |-> Head(channel.queue)])
              /\ channel' = [channel EXCEPT !.queue = Tail(@)]
       ELSE IF channel.state = "iterating"
         THEN /\ promises' = Append(promises, NewPromise(c))
              /\ channel' = [channel EXCEPT !.resolveNext = p, !.rejectNext = p]
       ELSE IF channel.state = "closed"
         THEN /\ promises' = Append(promises, [consumer |-> c, kind |-> "done", value |-> 0])
              /\ UNCHANGED channel
       ELSE /\ promises' = Append(promises, [consumer |-> c, kind |-> "error", value |-> 0])
            /\ UNCHANGED channel
  /\ UNCHANGED << enqueued, thrownAfter >>

\* enqueue(value)
ChannelEnqueue(v) ==
  /\ UNCHANGED << connVars, supVars, sessionVars, streamVars, clockVars, backVars >>
  /\ Len(enqueued) < MaxEnqueue
  /\ LET verdict == FilterVerdict(channel, v)
         iterating == channel.state = "iterating"
         queue == QueuePush(channel.queue, v)
     IN
       /\ enqueued' = Append(enqueued, [value |-> v, state |-> channel.state,
                                        accepted |-> iterating /\ verdict.keep])
       /\ IF ~iterating THEN UNCHANGED << channel, promises >>
          ELSE IF ~verdict.keep
            THEN /\ channel' = [channel EXCEPT !.filter = verdict.filter]
                 /\ UNCHANGED promises
          ELSE IF channel.resolveNext # 0
            THEN /\ promises' = Settle(promises, channel.resolveNext, "value", Head(queue))
                 /\ channel' = [channel EXCEPT !.queue = Tail(queue), !.resolveNext = 0,
                                               !.filter = verdict.filter]
          ELSE /\ channel' = [channel EXCEPT !.queue = queue, !.filter = verdict.filter]
               /\ UNCHANGED promises
  /\ UNCHANGED thrownAfter

\* throw(reason)
ChannelThrow ==
  /\ UNCHANGED << connVars, supVars, sessionVars, streamVars, clockVars, backVars >>
  /\ thrownAfter = -1
  /\ IF channel.state # "iterating" THEN UNCHANGED << channel, promises, thrownAfter >>
     ELSE /\ channel' = [channel EXCEPT !.state = "error", !.error = "e"]
          /\ promises' = Settle(promises, channel.rejectNext, "error", 0)
          /\ thrownAfter' = Len(promises)
  /\ UNCHANGED enqueued

\* close()
ChannelClose ==
  /\ UNCHANGED << connVars, supVars, sessionVars, streamVars, clockVars, backVars >>
  /\ channel.state = "iterating"
  /\ channel' = [channel EXCEPT !.state = "closed"]
  /\ promises' = Settle(promises, channel.resolveNext, "done", 0)
  /\ UNCHANGED << enqueued, thrownAfter >>

ChannelNext ==
  \/ \E c \in 1..MaxConsumers : ChannelRead(c)
  \/ \E v \in Values : ChannelEnqueue(v)
  \/ ChannelThrow
  \/ ChannelClose

(***************************************************************************)
(* Part F.  NicoliveClient.postComment: the vpos of a comment.  The time   *)
(* of the messageServer frame is taken as the milliseconds that            *)
(* new Date(vposBaseTime).getTime() returns.                               *)
(***************************************************************************)
\* last millisecond of the clock
MaxNow == 15
\* number of postComment calls
MaxPosts == 1

VposBaseTimes == {0, 3, 25}

\* variant: the quotient is truncated downwards
MathRoundDiv_floor(d, q) == d \div q

\* Math.round(d / q) for q > 0: the nearest integer, a tie goes upwards
MathRoundDiv(d, q) == (2 * d + q) \div (2 * q)

ClockInit ==
  /\ now = 0
  /\ vposBaseTimeMs = -1
  /\ posted = << >>

\* time passes
Tick(d) ==
  /\ UNCHANGED << connVars, supVars, sessionVars, streamVars, channelVars, backVars >>
  /\ now + d <= MaxNow
  /\ now' = now + d
  /\ UNCHANGED << vposBaseTimeMs, posted >>

\* onMessageServer: vposBaseTimeMs is stored, at every messageServer frame
LatchVposBaseTime(b) ==
  /\ UNCHANGED << connVars, supVars, sessionVars, streamVars, channelVars, backVars >>
  /\ vposBaseTimeMs # b
  /\ vposBaseTimeMs' = b
  /\ UNCHANGED << now, posted >>

\* postComment of a logged-in user: the frame is sent within the call
PostComment ==
  /\ UNCHANGED << connVars, supVars, sessionVars, streamVars, channelVars, backVars >>
  /\ vposBaseTimeMs # -1
  /\ Len(posted) < MaxPosts
  /\ posted' = Append(posted, [t |-> now, b |-> vposBaseTimeMs,
                              vpos |-> MathRoundDiv(now - vposBaseTimeMs, 10)])
  /\ UNCHANGED << now, vposBaseTimeMs >>

ClockNext ==
  \/ \E d \in {1, 4} : Tick(d)
  \/ \E b \in VposBaseTimes : LatchVposBaseTime(b)
  \/ PostComment

(***************************************************************************)
(* Part G.  NicoliveMessageClient.fetchBackwardMessages.  The caller's     *)
(* continuation is the environment: it answers continue, stop or abort.    *)
(* The client was connected without skipTo, so receiveMessageOld emits     *)
(* every batch it is given.                                                *)
(***************************************************************************)
\* fetchBackwardMessages calls the model follows
MaxOldCalls == 2
\* backward entries receiveEntry handles
MaxOldEntries == 1

\* "--not-connect", the value of _backwardUri after construction
NotConnect == -1

MinBackwards == {0, MsgsPerSeg, 2 * MsgsPerSeg}

ContinuationValues == {"continue", "stop", "abort"}

\* the backward pages the entry stream may point at; 0: no segment
OldPages == {0, 2, 3}

OldInitOf(snapshots) ==
  /\ mcIsSnapshot \in snapshots
  /\ _backwardUri = NotConnect
  /\ _fetchingBackwardMessage = FALSE
  /\ oldEntries = 0
  /\ oldCalls = << >>
  /\ onMessageOld = << >>

OldIdle == OldInitOf({FALSE})

OldInit == OldInitOf(BOOLEAN)

\* variant: the URI the loop has reached is kept
RestoreBackwardUri_keep(_startBackwardUri, current) == current

\* this._backwardUri = _startBackwardUri
RestoreBackwardUri(_startBackwardUri, current) == _startBackwardUri

\* the call of fetchBackwardMessages up to its first await, with uri the
\* value of this._backwardUri at the call
OldStart(uri, minBackwards) ==
  IF _fetchingBackwardMessage \/ uri = 0 \/ minBackwards = 0
  THEN /\ oldCalls' = Append(oldCalls,
            [pc |-> "ended", end |-> "returned", minBackwards |-> minBackwards,
             flagAtStart |-> _fetchingBackwardMessage,
             start |-> uri, uri |-> uri, fetches |-> 0, buf |-> << >>,
             uriAtEnd |-> uri, flagAtEnd |-> _fetchingBackwardMessage])
       /\ UNCHANGED _fetchingBackwardMessage
  ELSE /\ oldCalls' = Append(oldCalls,
            [pc |-> "fetching", end |-> "none", minBackwards |-> minBackwards,
             flagAtStart |-> FALSE,
             start |-> uri, uri |-> uri, fetches |-> 1, buf |-> << >>,
             uriAtEnd |-> uri, flagAtEnd |-> TRUE])
       /\ _fetchingBackwardMessage' = TRUE

\* a caller (NicoliveClient.fetchBackwardMessages) calls fetchBackwardMessages
OldCall(minBackwards) ==
  /\ UNCHANGED << connVars, supVars, sessionVars, streamVars, channelVars, clockVars >>
  /\ Len(oldCalls) < MaxOldCalls
  /\ OldStart(_backwardUri, minBackwards)
  /\ UNCHANGED << mcIsSnapshot, _backwardUri, oldEntries, onMessageOld >>

\* receiveEntry of a backward entry before the first segment: the URI is
\* stored and, with a segment in the entry, fetchBackwardMessages is called
OldReceiveBackward(page, minBackwards) ==
  /\ UNCHANGED << connVars, supVars, sessionVars, streamVars, channelVars, clockVars >>
  /\ Len(oldCalls) < MaxOldCalls
  /\ oldEntries < MaxOldEntries
  /\ oldEntries' = oldEntries + 1
  /\ _backwardUri' = page
  /\ IF page # 0 THEN OldStart(page, minBackwards)
     ELSE UNCHANGED << oldCalls, _fetchingBackwardMessage >>
  /\ UNCHANGED << mcIsSnapshot, onMessageOld >>

\* the end of call i in the state it leaves behind
OldEnded(call, end, uri, buf) ==
  [call EXCEPT !.pc = "ended", !.end = end, !.buf = buf,
               !.uriAtEnd = uri, !.flagAtEnd = FALSE]

\* fetch and arrayBuffer of call i resolved: the continuation is asked, the
\* page is decoded; after the last page the batch goes to receiveMessageOld
OldFetchOk(i, value) ==
  /\ UNCHANGED << connVars, supVars, sessionVars, streamVars, channelVars, clockVars >>
  /\ i \in 1..Len(oldCalls)
  /\ oldCalls[i].pc = "fetching"
  /\ LET call == oldCalls[i] IN
       IF value = "abort"
       THEN LET uri == RestoreBackwardUri(call.start, _backwardUri) IN
              /\ _backwardUri' = uri
              /\ _fetchingBackwardMessage' = FALSE
              /\ oldCalls' = [oldCalls EXCEPT ![i] = OldEnded(call, "abort", uri, call.buf)]
              /\ UNCHANGED onMessageOld
       ELSE /\ call.uri > 0
            /\ LET packed == PackedSegment(call.uri)
                   buf == Append(call.buf, packed.messages)
                   length == Len(Flatten(buf))
                   uri == IF mcIsSnapshot THEN packed.snapshot ELSE packed.next
               IN
                 /\ _backwardUri' = uri
                 /\ IF value = "stop" \/ length >= call.minBackwards \/ uri = 0
                    THEN /\ _fetchingBackwardMessage' = FALSE
                         /\ oldCalls' = [oldCalls EXCEPT ![i] = OldEnded(call, "emitted", uri, buf)]
                         /\ onMessageOld' =
                              Append(onMessageOld,
                                     [call |-> i, messages |-> Flatten(Reverse(buf))])
                    ELSE /\ oldCalls' = [oldCalls EXCEPT ![i].pc = "sleeping", ![i].buf = buf]
                         /\ UNCHANGED << _fetchingBackwardMessage, onMessageOld >>
  /\ UNCHANGED << mcIsSnapshot, oldEntries >>

\* sleep(1000) of call i is over: the next page is fetched from the URI the
\* client holds by then
OldWake(i) ==
  /\ UNCHANGED << connVars, supVars, sessionVars, streamVars, channelVars, clockVars >>
  /\ i \in 1..Len(oldCalls)
  /\ oldCalls[i].pc = "sleeping"
  /\ oldCalls' = [oldCalls EXCEPT ![i].pc = "fetching", ![i].uri = _backwardUri,
                                  ![i].fetches = @ + 1]
  /\ UNCHANGED << mcIsSnapshot, _backwardUri, _fetchingBackwardMessage, oldEntries,
                  onMessageOld >>

\* fetch, arrayBuffer or fromBinary of call i threw: catch and finally
OldThrow(i) ==
  /\ UNCHANGED << connVars, supVars, sessionVars, streamVars, channelVars, clockVars >>
  /\ i \in 1..Len(oldCalls)
  /\ oldCalls[i].pc = "fetching"
  /\ LET uri == RestoreBackwardUri(oldCalls[i].start, _backwardUri) IN
       /\ _backwardUri' = uri
       /\ oldCalls' = [oldCalls EXCEPT ![i] = OldEnded(oldCalls[i], "threw", uri, oldCalls[i].buf)]
  /\ _fetchingBackwardMessage' = FALSE
  /\ UNCHANGED << mcIsSnapshot, oldEntries, onMessageOld >>

OldNext ==
  \/ \E minBackwards \in MinBackwards : OldCall(minBackwards)
  \/ \E page \in OldPages, minBackwards \in MinBackwards : OldReceiveBackward(page, minBackwards)
  \/ \E i \in 1..MaxOldCalls, value \in ContinuationValues : OldFetchOk(i, value)
  \/ \E i \in 1..MaxOldCalls : OldWake(i)
  \/ \E i \in 1..MaxOldCalls : OldThrow(i)

LibIdle == StreamIdle /\ ChannelIdle /\ ClockInit /\ OldIdle

ConnIdle ==
  /\ ConnInit
  /\ endedId = 0
  /\ server = [nPrev |-> 0, stale |-> FALSE, backward |-> TRUE]
  /\ curretnEntryAt = 1

\* the supervisor after construction
InitSup == ConnIdle /\ SupInit /\ WatchIdle /\ LibIdle

InitSession == ConnIdle /\ SupInit /\ WatchInit /\ LibIdle

InitStream ==
  ConnIdle /\ SupInit /\ WatchIdle /\ StreamInit /\ ChannelIdle /\ ClockInit /\ OldIdle

SpecClock == InitSup /\ [][ClockNext]_vars

InitChannel ==
  ConnIdle /\ SupInit /\ WatchIdle /\ StreamIdle /\ ChannelInit /\ ClockInit /\ OldIdle

SpecChannel == InitChannel /\ [][ChannelNext]_vars

SpecStream == InitStream /\ [][StreamNext]_vars

InitOld ==
  ConnIdle /\ SupInit /\ WatchIdle /\ StreamIdle /\ ChannelIdle /\ ClockInit /\ OldInit

SpecOld == InitOld /\ [][OldNext]_vars

SpecSession == InitSession /\ [][SessionNext]_vars

SpecRetry == InitSup /\ [][RetryNext]_vars

SpecReconnect == InitSup /\ [][ReconnectNext]_vars


\* the steps of the two fetcher tasks and of the consumer
LiveNext ==
  \/ EntryFetchOk
  \/ EntryReceive
  \/ EntryStreamEnd
  \/ MsgTakeSegment
  \/ MsgFetchOk
  \/ MsgReceive
  \/ MsgSegmentEnd
  \/ ReadLive

\* one connect set under failures and aborts
FetchNext ==
  \/ LiveNext
  \/ EntryError
  \/ MsgError
  \/ Abort

\* the connector under failures, aborts and reconnects
ConnNext ==
  \/ FetchNext
  \/ Reconnect

\* the connector after construction; the supervisor of part B stays as constructed
Init == ConnInit /\ SupInit /\ WatchIdle /\ LibIdle

\* a connector that is reconnected after its streams ended
ReopenNext ==
  \/ LiveNext
  \/ Reconnect

SpecReopen == Init /\ [][ReopenNext]_vars

SpecFetch == Init /\ [][FetchNext]_vars

SpecConn == Init /\ [][ConnNext]_vars

\* the connector with backward fetches
BackwardNext ==
  \/ LiveNext
  \/ \E n \in MaxSegmentCounts, isSnapshot \in BOOLEAN : GetBackwardMessages(n, isSnapshot)
  \/ \E i \in 1..MaxBackwardCalls : BackwardPageOk(i)
  \/ \E i \in 1..MaxBackwardCalls : BackwardPageFail(i)

\* the backward fetches of a connect set whose live messages are not read
PagesNext ==
  \/ EntryFetchOk
  \/ EntryReceive
  \/ MsgTakeSegment
  \/ MsgFetchOk
  \/ \E n \in MaxSegmentCounts, isSnapshot \in BOOLEAN : GetBackwardMessages(n, isSnapshot)
  \/ \E i \in 1..MaxBackwardCalls : BackwardPageOk(i)
  \/ \E i \in 1..MaxBackwardCalls : BackwardPageFail(i)
  \/ \E i \in 1..MaxBackwardCalls : BackwardAbort(i)

InitBackward == ConnInitOf(BackwardAts) /\ SupInit /\ WatchIdle /\ LibIdle

SpecBackward == InitBackward /\ [][BackwardNext]_vars

SpecPages == InitBackward /\ [][PagesNext]_vars

\* the task of createEntryFetcher alone, on entry streams with or without a
\* backward entry
CreateNext ==
  \/ EntryFetchOk
  \/ EntryReceive
  \/ EntryStreamEnd
  \/ EntryError

InitCreate == ConnInitWith(InitAts, BOOLEAN) /\ SupInit /\ WatchIdle /\ LibIdle

\* the event loop runs every continuation that is ready, and the server
\* goes on with a stream it has started
SpecCreate == InitCreate /\ [][CreateNext]_vars /\ WF_vars(CreateNext)

(***************************************************************************)
(* Claims about the message-server connector                               *)
(***************************************************************************)
GotValues(c) == { i \in 1..Len(got) : got[i].kind = "value" /\ got[i].conn = c }
GotIds == { got[i].id : i \in { k \in 1..Len(got) : got[k].kind = "value" } }

\* C1: across any number of reconnects no meta id is yielded more than once
\* by the message iterators of the connector taken together.
C1_NoDuplicateDelivery ==
  \A i, j \in 1..Len(got) :
    (i < j /\ got[i].kind = "value" /\ got[j].kind = "value") => got[i].id # got[j].id

\* the last message the server streams to a live consumer
LastId == IF endedId # 0 THEN endedId ELSE NMsg

\* the connect set was built by the first reconnect, after the message
\* carry.skipToMetaId had been delivered, it has streamed to the end of the
\* server's stream and the consumer has read everything it was given
ReconnectedAndDrained ==
  /\ connNo = 2
  /\ cPhase = "ready"
  /\ carry.skipToMetaId # 0
  /\ closeReason \in {"end", "ended"}
  /\ messageIter.queue = << >>

\* C2: after a reconnect every message the server placed after the last
\* delivered message is yielded to the consumer (no gap), wherever the last
\* delivered message lies relative to lastEntryAt.  Stated on the final
\* state of the stream after the reconnect.
C2_NoGapAfterReconnect ==
  ReconnectedAndDrained =>
    \A id \in (carry.skipToMetaId + 1)..LastId : id \in GotIds

\* C3: while the messagePromise of an accepted getBackwardMessages call is
\* pending a further call returns undefined, so at most one backward fetch is
\* in flight.
C3_SingleFlightBackward == Len(backwardCalls) <= 1

\* index of the first segment entry of a received entry sequence, or one past
\* its end
FirstSegment(recv) ==
  IF \E k \in 1..Len(recv) : recv[k].case = "segment"
  THEN CHOOSE k \in 1..Len(recv) :
         /\ recv[k].case = "segment"
         /\ \A m \in 1..(k - 1) : recv[m].case # "segment"
  ELSE Len(recv) + 1

\* the values of the previous entries before the first segment and of all
\* segment entries, in arrival order
ExpectedEmit(recv) ==
  SelectSeq(
    [k \in 1..Len(recv) |->
       IF recv[k].case = "segment" \/ (recv[k].case = "previous" /\ k < FirstSegment(recv))
       THEN << recv[k].value >> ELSE << >>],
    LAMBDA x : x # << >>)

\* the segment entries only
SegmentsOnly(recv) ==
  SelectSeq(
    [k \in 1..Len(recv) |-> IF recv[k].case = "segment" THEN << recv[k].value >> ELSE << >>],
    LAMBDA x : x # << >>)

\* the first backward entry received before the first segment, if any
ExpectedReg(recv) ==
  LET early == { k \in 1..(FirstSegment(recv) - 1) : k <= Len(recv) /\ recv[k].case = "backward" } IN
    IF early = {} THEN << >>
    ELSE << recv[CHOOSE k \in early : \A m \in early : k <= m].value >>

Wrap(seq) == [k \in 1..Len(seq) |-> << seq[k] >>]

EndedEnqueued ==
  /\ endedId # 0
  /\ \/ \E k \in 1..Len(messageIter.queue) : messageIter.queue[k] = endedId
     \/ \E i \in GotValues(connNo) : got[i].id = endedId

\* C5: once the program-ended message is enqueued the message fetcher has
\* finished (no further segment fetch), nothing is queued behind that message,
\* and the read that follows the ended message yields end-of-sequence.
C5_EndedTerminatesIterator ==
  /\ EndedEnqueued =>
       /\ mPc = "done"
       /\ messageClosed
       /\ messageIter.state = "closed"
       /\ messageIter.queue # << >> => messageIter.queue[Len(messageIter.queue)] = endedId
  /\ \A i, j \in 1..Len(got) :
       (/\ i < j
        /\ got[i].kind = "value"
        /\ got[i].id = endedId
        /\ got[j].conn = got[i].conn) => got[j].kind = "done"

\* the consumer read the ended message and then end-of-sequence
C5_Witness ==
  \E i \in 1..Len(got) :
    /\ i < Len(got)
    /\ got[i].kind = "value"
    /\ got[i].id = endedId
    /\ got[i + 1].kind = "done"
    /\ got[i + 1].conn = got[i].conn

(***************************************************************************)
(* Claims about the supervisor                                             *)
(***************************************************************************)
StateNames == [k \in 1..Len(states) |-> states[k].state]

\* one step of the acceptor of
\*   connecting, opened, (reconnecting, opened)*, disconnected | reconnect_failed
\* which also accepts the final state after connecting and after reconnecting
OnStateStep(q, s) ==
  CASE q = "start" /\ s = "connecting" -> "connecting"
    [] q = "connecting" /\ s = "opened" -> "opened"
    [] q = "opened" /\ s = "reconnecting" -> "reconnecting"
    [] q = "reconnecting" /\ s = "opened" -> "opened"
    [] q \in {"connecting", "opened", "reconnecting"}
         /\ s \in {"disconnected", "reconnect_failed"} -> "final"
    [] OTHER -> "rejected"

RECURSIVE OnStateRun(_, _)
OnStateRun(q, names) ==
  IF names = << >> THEN q ELSE OnStateRun(OnStateStep(q, Head(names)), Tail(names))

\* C6: the states published on onState since construction form a prefix of
\* connecting, opened, (reconnecting, opened)*, disconnected|reconnect_failed:
\* nothing is published after disconnected or reconnect_failed and opened is
\* not published twice in a row.
C6_OnStateLanguage == OnStateRun("start", StateNames) # "rejected"

\* C7: an invocation of onConnectErrorCatch for a network failure makes at
\* most 5 reconnect attempts, the k-th after a wait of the k-th of
\* 5, 10, 15, 30, 30 seconds, and none after an attempt that succeeded.
C7_RetrySchedule ==
  \A h \in 1..Len(handlers) :
    LET a == handlers[h].attempts IN
      /\ Len(a) <= 5
      /\ \A k \in 1..Len(a) : a[k].wait = << 5, 10, 15, 30, 30 >>[k]
      /\ \A k \in 1..(Len(a) - 1) : a[k].result = "failed"

\* the third attempt, made after waits of 5, 10 and 15 seconds, succeeded and
\* the handler returned
C7_Witness ==
  \E h \in 1..Len(handlers) :
    /\ handlers[h].pc = "done"
    /\ Len(handlers[h].attempts) = 3
    /\ handlers[h].attempts[3].result = "ok"

\* C8: reconnect_failed is not published while attempts of the retry budget
\* remain (a close() of the caller left aside), and when all attempts have
\* failed the last published state is reconnect_failed.
C8_ReconnectFailedAtExhaustion ==
  \A h \in 1..Len(handlers) :
    /\ handlers[h].pc # "done" =>
         \A k \in (handlers[h].from + 1)..Len(states) :
           states[k].state = "reconnect_failed" => states[k].description = "user"
    /\ handlers[h].final # "none" => handlers[h].final = "reconnect_failed"

\* C9: a close() of the caller publishes disconnected whatever the state of
\* the supervisor is.
C9_CallerClosePublishesDisconnected ==
  \A k \in 1..Len(states) :
    states[k].description = "user" => states[k].state = "disconnected"

\* C10: when the timer of a reconnect frame that arrived while the supervisor
\* was opened fires and the supervisor is still opened, the supervisor closes
\* the current socket and constructs a socket to the URL with the new token
\* that will send startWatching with reconnect: true.
C10_ReconnectFrameReopens ==
  [][ ( /\ \E i \in 1..Len(timers) : timers' = RemoveAt(timers, i) /\ timers[i].opened
        /\ SupOpened(Cur) )
      => ( /\ wsCount' = wsCount + 1
           /\ wsClient'.readyState = "CONNECTING"
           /\ wsClient'.reconnect
           /\ wsClient'.token = websocketUrl ) ]_vars

\* C11: when the watch socket closes by itself (no disconnect frame, no
\* close by the client) while the supervisor is opened, the supervisor
\* publishes reconnecting first and does not publish disconnected.
C11_UnexpectedCloseReconnects ==
  [][ ( /\ SupOpened(Cur)
        /\ wsClient'.readyState = "CLOSED" )
      => ( /\ Len(states') > Len(states)
           /\ states'[Len(states) + 1].state = "reconnecting"
           /\ \A k \in (Len(states) + 1)..Len(states') : states'[k].state # "disconnected" ) ]_vars

\* C12: every error of a fetch of the message stream (a response that is not
\* ok, a rejected fetch, a failed read of the body) makes the supervisor
\* publish reconnecting and not disconnected.
C12_FetchErrorReconnects ==
  \A i \in 1..Len(events) :
    events[i].type = "fetch_error" =>
      /\ \E k \in (events[i].from + 1)..events[i].to : states[k].state = "reconnecting"
      /\ \A k \in (events[i].from + 1)..events[i].to : states[k].state # "disconnected"

\* C13: after the message stream has delivered a program-ended state message,
\* with or without meta.at, the supervisor publishes disconnected and never
\* afterwards publishes reconnecting or constructs a watch socket, neither
\* for a timer of a reconnect frame nor for a call of reconnect().
C13_EndedNeverReconnects ==
  \A i \in 1..Len(events) :
    events[i].type = "ended" =>
      /\ \E k \in (events[i].from + 1)..events[i].to : states[k].state = "disconnected"
      /\ \A k \in (events[i].from + 1)..Len(states) : states[k].state # "reconnecting"
      /\ wsCount = events[i].sockets

(***************************************************************************)
(* Claims about the watch session (Part C)                                 *)
(***************************************************************************)
CountOf(seq, v) == Cardinality({i \in 1..Len(seq) : seq[i] = v})

FrameArrives(type) ==
  /\ Len(inbound') = Len(inbound) + 1
  /\ inbound'[Len(inbound')].type = type

\* C14: a step that receives a ping frame sends exactly pong then keepSeat,
\* in this order, within the step; no other step sends a keepSeat.
C14_PingAnswered ==
  [][ IF FrameArrives("ping")
        THEN ws'.sent = ws.sent \o << "pong", "keepSeat" >>
        ELSE CountOf(ws'.sent, "keepSeat") = CountOf(ws.sent, "keepSeat") ]_vars

C14_Witness ==
  /\ Len(inbound) >= 2
  /\ inbound[Len(inbound)].type = "ping"
  /\ Len(ws.sent) >= 3
  /\ SubSeq(ws.sent, Len(ws.sent) - 1, Len(ws.sent)) = << "pong", "keepSeat" >>

\* C15: every frame received on the watch socket, of every type, has been
\* yielded by the iterator or is queued in it to be yielded.
C15_EveryFrameYielded ==
  \A i \in 1..Len(inbound) :
    \/ \E k \in 1..Len(received) : received[k] = i
    \/ \E k \in 1..Len(iteratorSet.queue) : iteratorSet.queue[k] = i

\* C16: a disconnect frame received while the iterator is running leaves it
\* free of error when the reason is END_PROGRAM, and latches the disconnect
\* error with the frame's reason for every other reason.
C16_EndProgramEndsNormally ==
  [][ ( /\ FrameArrives("disconnect")
        /\ iteratorSet.state = "iterating" )
      => IF inbound'[Len(inbound')].reason = "END_PROGRAM"
           THEN iteratorSet'.state # "error"
           ELSE /\ iteratorSet'.state = "error"
                /\ iteratorSet'.error =
                     NicoliveWebSocketDisconnectError(inbound'[Len(inbound')].reason) ]_vars

C18_BackwardOrder ==
  \A c \in 1..Len(backwardResults) :
    LET r == backwardResults[c]
        n == Len(r.pages)
    IN r.settled = "resolved" =>
         /\ Len(r.messages) = n * MsgsPerSeg
         /\ \A j \in 1..n : \A k \in 1..MsgsPerSeg :
              r.messages[(n - j) * MsgsPerSeg + k] = PackedSegment(r.pages[j]).messages[k]

C18_Witness ==
  \E c \in 1..Len(backwardResults) :
    /\ backwardResults[c].settled = "resolved"
    /\ Len(backwardResults[c].pages) >= 2

\* C19: a backward fetch in which a page failed after at least one page was
\* decoded resolves, and the backward URIs are then those of the last decoded
\* page; a backward fetch rejects only when no page was decoded.
C19_PartialBackwardResult ==
  \A c \in 1..Len(backwardResults) :
    LET r == backwardResults[c]
        n == Len(r.pages)
    IN /\ (r.failed /\ n >= 1) =>
            /\ r.settled = "resolved"
            /\ r.mine => r.uriAfter = [segment |-> PackedSegment(r.pages[n]).next,
                                       snapshot |-> PackedSegment(r.pages[n]).snapshot]
       /\ r.settled = "rejected" => n = 0

(***************************************************************************)
(* Claims about connector.reconnect() (Part A)                             *)
(***************************************************************************)
\* C20: reconnect() of a closed connector starts the new entry fetch at the
\* old lastEntryAt and installs the old lastMeta id as skipToMetaId; the new
\* message fetcher starts with the backward URIs the old message fetcher
\* held, whatever backward entry the new entry stream carries.
C20_ReconnectCarriesState ==
  [][ /\ (connNo' = connNo + 1 /\ cPhase = "ready") =>
           /\ curretnEntryAt' = lastEntryAt
           /\ skipToMetaId' = lastMeta
           /\ carry'.backwardUri = currentBackwardUri
           /\ currentBackwardUri' = currentBackwardUri
      /\ (connNo > 1 /\ mPc = "notStarted" /\ mPc' # "notStarted") =>
           currentBackwardUri' = carry.backwardUri ]_vars

C20_Witness ==
  /\ connNo = 2
  /\ cPhase = "ready"
  /\ skipToMetaId # 0
  /\ Len(fetchLog.reg) >= 1
  /\ fetchLog.reg[1] # currentBackwardUri
  /\ currentBackwardUri = carry.backwardUri

(***************************************************************************)
(* Claims about the fetch of a protobuf stream (Part D)                    *)
(***************************************************************************)
\* C21: a response with a status outside 200..299 makes the fetch fail: it
\* never reaches the reading of its body and no message is decoded from it.
C21_NonOkStatusFails ==
  ~ (res.status \in 200..299) =>
      /\ rPc \in {"fetching", "failed"}
      /\ decoded = << >>

(***************************************************************************)
(* Claims about postComment (Part F)                                       *)
(***************************************************************************)
\* C22: the vpos of every postComment frame is an integer nearest to
\* (t - b) / 10, for the time t of the call and the latched vposBaseTime b:
\* no integer is nearer.
C22_VposRounded ==
  \A i \in 1..Len(posted) :
    LET d == posted[i].t - posted[i].b
        Dist(k) == IF 10 * k >= d THEN 10 * k - d ELSE d - 10 * k
    IN /\ Dist(posted[i].vpos) <= 5
       /\ \A k \in (posted[i].vpos - 1)..(posted[i].vpos + 1) :
            Dist(posted[i].vpos) <= Dist(k)

C22_Witness ==
  \E i \in 1..Len(posted) :
    /\ (posted[i].t - posted[i].b) % 10 \in 6..9
    /\ posted[i].t > posted[i].b

(***************************************************************************)
(* Claims about the iterator set (Part E)                                  *)
(***************************************************************************)
IsValue(promise) == promise.kind = "value"

IsAccepted(call) == call.accepted

ValuesOf(seq) == [i \in 1..Len(seq) |-> seq[i].value]

\* the values the reads of the iterator returned, in the order of the reads
Received == ValuesOf(SelectSeq(promises, IsValue))

Accepted == ValuesOf(SelectSeq(enqueued, IsAccepted))

SingleConsumer == \A p \in 1..Len(promises) : promises[p].consumer = 1

\* C23: with a single consumer, the values received followed by the values
\* still queued are exactly the values enqueued while the iterator set was
\* iterating and accepted by the filter, in the order of the enqueue calls;
\* a value enqueued after close or throw appears in neither.
C23_SingleConsumerFifo ==
  SingleConsumer =>
    /\ Received \o channel.queue = Accepted
    /\ \A i \in 1..Len(enqueued) : enqueued[i].state # "iterating" => ~enqueued[i].accepted

C23_Witness ==
  /\ SingleConsumer
  /\ Len(Received) >= 2
  /\ Received[1] # Received[2]
  /\ \E i \in 1..Len(enqueued) : enqueued[i].state # "iterating"

\* C24: the first read issued after throw(e) latched its error fails with e.
C24_NextReadAfterThrowFails ==
  (thrownAfter >= 0 /\ Len(promises) > thrownAfter) =>
     promises[thrownAfter + 1].kind = "error"

\* C25: with several consumers no value waits in the queue while a read is
\* pending, and every accepted value was received by one read or is queued.
C25_EachValueToOneConsumer ==
  /\ channel.queue # << >> =>
       \A p \in 1..Len(promises) : promises[p].kind # "pending"
  /\ Len(Received) + Len(channel.queue) = Len(Accepted)

\* C28: with skipToMetaId = X, a value enqueued while iterating is kept
\* exactly when an earlier enqueued value had the id X: the values before the
\* first X and that X are dropped, every later value, X included, is kept
\* and is received or queued.
C28_SkipToMetaId ==
  channel.skipToMetaId # 0 =>
    /\ \A i \in 1..Len(enqueued) :
         enqueued[i].state = "iterating" =>
           ( enqueued[i].accepted <=>
               \E j \in 1..(i - 1) : enqueued[j].value = channel.skipToMetaId )
    /\ \A i \in 1..Len(enqueued) :
         enqueued[i].accepted =>
           \/ \E k \in 1..Len(Received) : Received[k] = enqueued[i].value
           \/ \E k \in 1..Len(channel.queue) : channel.queue[k] = enqueued[i].value

C28_Witness ==
  /\ channel.skipToMetaId # 0
  /\ Len(enqueued) = 3
  /\ enqueued[1].value # channel.skipToMetaId
  /\ enqueued[2].value = channel.skipToMetaId
  /\ enqueued[3].value = channel.skipToMetaId
  /\ enqueued[3].accepted
  /\ Received = << channel.skipToMetaId >>

(***************************************************************************)
(* Claims about the entry fetcher and lastMeta (Part A)                    *)
(***************************************************************************)
\* C26: in an entry fetch that follows a `next` entry, every previous entry
\* received before the first segment of that fetch is emitted.
C26_FlagResetEveryRefetch ==
  fetchLog.no >= 2 =>
    \A k \in 1..Len(fetchLog.recv) :
      (k < FirstSegment(fetchLog.recv) /\ fetchLog.recv[k].case = "previous") =>
        \E m \in 1..Len(fetchLog.emit) : fetchLog.emit[m] = fetchLog.recv[k].value

\* the ids of the live messages handed to the caller or queued for it, over
\* all connections, in order
DeliveredLive ==
  LET values == SelectSeq(got, LAMBDA g : g.kind = "value") IN
    [i \in 1..Len(values) |-> values[i].id] \o messageIter.queue

\* C27: lastMeta, when set, is the meta id of the most recent live message
\* delivered; and when no live message was delivered but a backward batch
\* was, it is the meta id of the last message of the last batch.
C27_LastMetaIsLastDelivered ==
  /\ (lastMeta # 0 /\ DeliveredLive # << >>) =>
        lastMeta = DeliveredLive[Len(DeliveredLive)]
  /\ ( /\ DeliveredLive = << >>
       /\ backwardResults # << >>
       /\ backwardResults[Len(backwardResults)].settled = "resolved"
       /\ backwardResults[Len(backwardResults)].mine ) =>
        LET m == backwardResults[Len(backwardResults)].messages IN
          lastMeta = m[Len(m)]

\* C29: a backward fetch aborted through its abortController after at least
\* one page was decoded resolves with the flattened messages of the pages
\* decoded so far, oldest page first, and the connector's current backward
\* URIs are then the next and snapshot URIs of the last decoded page.
C29_AbortedBackwardResolves ==
  \A c \in 1..Len(backwardResults) :
    LET r == backwardResults[c]
        n == Len(r.pages)
    IN (r.aborted /\ n >= 1) =>
         /\ r.settled = "resolved"
         /\ r.messages = Flatten([k \in 1..n |-> PackedSegment(r.pages[n + 1 - k]).messages])
         /\ r.mine => r.uriAfter = [segment |-> PackedSegment(r.pages[n]).next,
                                    snapshot |-> PackedSegment(r.pages[n]).snapshot]

C29_Witness ==
  \E c \in 1..Len(backwardResults) :
    /\ backwardResults[c].aborted
    /\ backwardResults[c].mine
    /\ Len(backwardResults[c].pages) >= 1
    /\ backwardResults[c].messages # << >>
    /\ backwardResults[c].uriAfter # backwardResults[c].uriBefore
    /\ currentBackwardUri = backwardResults[c].uriAfter

\* C30: the first frame transmitted on a watch socket is startWatching, sent
\* in the step in which the socket opens, and its reconnect field is true
\* exactly when the session was created with reconnect data.
C30_StartWatchingFirst ==
  /\ watchPc = "returned" => ws.sent # << >>
  /\ ws.sent # << >> =>
       /\ watchPc = "returned"
       /\ ws.sent[1] = startWatching(watchReconnect)
       /\ watchReconnect <=> ws.sent[1] = startWatching(TRUE)

C30_Witness ==
  /\ watchReconnect
  /\ Len(ws.sent) >= 3
  /\ ws.sent[1] = startWatching(TRUE)
  /\ ws.sent[2] = "pong"

\* the position of the first messageServer frame among the inbound frames
FirstMessageServer ==
  LET at == {i \in 1..Len(inbound) : inbound[i].type = "messageServer"} IN
    CHOOSE i \in at : \A j \in at : i <= j

\* C31: the MessageServerData of a watch session is set at most once: on a
\* first connection it is the data of the first messageServer frame and no
\* later frame changes it; on a reconnection it is the carried-over data
\* whatever frames arrive.
C31_MessageServerDataSetOnce ==
  [][ /\ messageServerData.state \in {"resolved", "given"} =>
           messageServerData' = messageServerData
      /\ watchReconnect' =>
           messageServerData' = [state |-> "given", value |-> CarriedData]
      /\ (~watchReconnect' /\ messageServerData'.state = "resolved") =>
           messageServerData'.value = FirstMessageServer' ]_vars

C31_Witness ==
  /\ ~watchReconnect
  /\ Len(inbound) = 3
  /\ inbound[1].type = "ping"
  /\ inbound[2].type = "messageServer"
  /\ inbound[3].type = "messageServer"
  /\ messageServerData = [state |-> "resolved", value |-> 2]

\* a reconnect frame was received while the iterator was running: no
\* disconnect frame came before it
ReconnectReceived ==
  \E i \in 1..Len(inbound) :
    /\ inbound[i].type = "reconnect"
    /\ \A j \in 1..(i - 1) : inbound[j].type # "disconnect"

\* C32: once a reconnect frame was received the socket is being closed, and
\* the next read of the session's iterator fails with the reconnect request
\* error.
C32_ReconnectFailsNextRead ==
  [][ (ReconnectReceived /\ ~signalAborted /\ ~signalAborted') =>
        /\ ws.readyState \in {"CLOSING", "CLOSED"}
        /\ (received' # received \/ iterEnd' # iterEnd) =>
             /\ received' = received
             /\ iterEnd' = "error"
             /\ iteratorSet.error = NicoliveWebSocketReconnectError ]_vars

\* C33: in a closed iterator set no next() is pending: close() has resolved
\* every read that was pending with end-of-sequence (nothing settles a read
\* of a closed set later, so a read pending then stays pending).
C33_CloseDrainsPending ==
  channel.state = "closed" =>
    \A p \in 1..Len(promises) : promises[p].kind # "pending"

\* C35: the decoder does not end normally while its buffer holds an
\* incomplete frame: an upstream end with a non-empty tail ends the output
\* with an error.
C35_TruncatedFrameFails ==
  rPc = "done" => buffer = << >>

\* C34: however the body is cut into chunks, the decoder yields the complete
\* frames of the stream in order, each once: what it has yielded is always
\* a prefix of the frames, it is all of them once every byte was delivered,
\* and the decoder itself never fails on a chunk.
C34_ChunkingIndependent ==
  /\ Len(decoded) <= Len(res.frames)
  /\ \A i \in 1..Len(decoded) : decoded[i] = res.frames[i]
  /\ (remaining = << >> /\ rPc \in {"reading", "done"}) => decoded = res.frames
  /\ rError # "RangeError"

(***************************************************************************)
(* Claims about the creation of the entry fetcher (Part A)                 *)
(***************************************************************************)
\* C36: the creation of the entry fetcher eventually completes: the promise
\* of the backward entry, which createEntryFetcher awaits before it
\* returns, is eventually resolved or rejected.
C36_CreationCompletes ==
  <>(backwardPromiser.state # "pending")

\* C37: the frames the session's iterator has yielded are in arrival order
\* and no frame is among them twice (a frame is named by its position among
\* the inbound frames).
C37_FramesYieldedOnceInOrder ==
  \A i, j \in 1..Len(received) : i < j => received[i] < received[j]

(***************************************************************************)
(* Claims about NicoliveClient.close (Part B)                              *)
(***************************************************************************)
\* the number of states published with the description of a caller's close
UserStates(seq) == Cardinality({k \in 1..Len(seq) : seq[k].description = "user"})

\* C38: a step in which the caller closes a supervisor whose watch socket is
\* open and whose message client is connected publishes exactly one state.
C38_CloseOneStateEvent ==
  [][ ( /\ UserStates(states') = UserStates(states) + 1
        /\ wsClient.readyState = "OPEN"
        /\ McIsConnect(Cur) )
      => Len(states') = Len(states) + 1 ]_vars

\* C40: a getBackwardMessages call that was aborted before its first page was
\* decoded leaves the current backward URIs of the connector as they were.
C40_EarlyAbortKeepsUri ==
  \A c \in 1..Len(backwardResults) :
    LET r == backwardResults[c] IN
      (r.aborted /\ r.mine /\ r.pages = << >>) => r.uriAfter = r.uriBefore

(***************************************************************************)
(* Claims about NicoliveMessageClient.fetchBackwardMessages (Part G)       *)
(***************************************************************************)
\* C39: a fetchBackwardMessages call that ended because the continuation
\* answered abort or because a fetch or a decode threw leaves the backward
\* URI at its value at the start of the call, has emitted no onMessageOld
\* batch and leaves isFetchingBackwardMessage false; a call made while
\* isFetchingBackwardMessage was true returned without fetching.
C39_AbortRestoresBackwardUri ==
  \A i \in 1..Len(oldCalls) :
    LET call == oldCalls[i] IN
      /\ call.end \in {"abort", "threw"} =>
           /\ call.uriAtEnd = call.start
           /\ ~call.flagAtEnd
           /\ \A b \in 1..Len(onMessageOld) : onMessageOld[b].call # i
      /\ call.flagAtStart =>
           /\ call.end = "returned"
           /\ call.fetches = 0

C39_Witness ==
  \E i, j \in 1..Len(oldCalls) :
    /\ oldCalls[i].end = "abort"
    /\ oldCalls[i].start > 0
    /\ Len(oldCalls[i].buf) >= 1
    /\ oldCalls[i].fetches = 2
    /\ _backwardUri = oldCalls[i].start
    /\ oldCalls[j].flagAtStart

====
